---- MODULE Spec2Model ----
(***************************************************************************)
(* A11YAssist: the accessibility auditor (runAudit and its scanners), the  *)
(* ARIA validator and the colour-contrast analyzer.                        *)
(*                                                                         *)
(* Text is modelled character by character: a JavaScript string is the     *)
(* sequence of its characters (each a one-character string), so that       *)
(* trimming, case folding, parseInt and the regular expressions of the     *)
(* source are computed and not assumed.  Floating-point numbers are        *)
(* fixed-point integers: a relative luminance is held in units of 1e-8     *)
(* and a contrast ratio as the fraction (lighter + 0.05) / (darker + 0.05) *)
(* of two such integers, compared by cross-multiplication.                 *)
(***************************************************************************)
EXTENDS Integers, Sequences, FiniteSets, TLC

(***************************************************************************)
(* JavaScript strings                                                      *)
(***************************************************************************)
Digits == {"0","1","2","3","4","5","6","7","8","9"}
LowerSeq == <<"a","b","c","d","e","f","g","h","i","j","k","l","m","n","o","p","q","r","s","t","u","v","w","x","y","z">>
UpperSeq == <<"A","B","C","D","E","F","G","H","I","J","K","L","M","N","O","P","Q","R","S","T","U","V","W","X","Y","Z">>
DigitSeq == <<"0","1","2","3","4","5","6","7","8","9">>
HexSeq == <<"0","1","2","3","4","5","6","7","8","9","a","b","c","d","e","f">>
Lower == {LowerSeq[i] : i \in 1..Len(LowerSeq)}
Upper == {UpperSeq[i] : i \in 1..Len(UpperSeq)}
Letters == Lower \cup Upper
\* \w of a JavaScript regular expression
WordChars == Letters \cup Digits \cup {"_"}
\* \s of a JavaScript regular expression, and what String.trim removes
WhiteSpace == {" ", "\t", "\n", "\r"}

Min(a, b) == IF a < b THEN a ELSE b

\* 0-based position of character c in the sequence t, -1 when absent
CharIndex(t, c) ==
    IF \E i \in 1..Len(t) : t[i] = c
    THEN (CHOOSE i \in 1..Len(t) : t[i] = c /\ \A j \in 1..(i-1) : t[j] # c) - 1
    ELSE -1

ToLowerChar(c) == IF c \in Upper THEN LowerSeq[CharIndex(UpperSeq, c) + 1] ELSE c
ToUpperChar(c) == IF c \in Lower THEN UpperSeq[CharIndex(LowerSeq, c) + 1] ELSE c

toLowerCase(s) == [i \in 1..Len(s) |-> ToLowerChar(s[i])]

RECURSIVE trimStart(_)
trimStart(s) ==
    IF s # <<>> /\ Head(s) \in WhiteSpace THEN trimStart(Tail(s)) ELSE s

RECURSIVE trimEnd(_)
trimEnd(s) ==
    IF s # <<>> /\ s[Len(s)] \in WhiteSpace
    THEN trimEnd(SubSeq(s, 1, Len(s) - 1)) ELSE s

trim(s) == trimEnd(trimStart(s))

\* String.substring(a, b): 0-based, b exclusive, both clamped to the string
substring(s, a, b) == SubSeq(s, Min(a, Len(s)) + 1, Min(b, Len(s)))

startsWithAt(s, p, i) ==
    /\ i + Len(p) - 1 <= Len(s)
    /\ \A k \in 1..Len(p) : s[i + k - 1] = p[k]

startsWith(s, p) == startsWithAt(s, p, 1)

\* String.indexOf: 0-based position of the first occurrence, -1 when absent
indexOf(s, p) ==
    IF \E i \in 1..(Len(s) + 1) : startsWithAt(s, p, i)
    THEN (CHOOSE i \in 1..(Len(s) + 1) :
            /\ startsWithAt(s, p, i)
            /\ \A j \in 1..(i-1) : ~startsWithAt(s, p, j)) - 1
    ELSE -1

\* String.replace(p, '') with a string pattern: the first occurrence only
removeFirst(s, p) ==
    LET cut(i) == IF i < 0 THEN s
                  ELSE SubSeq(s, 1, i) \o SubSeq(s, i + Len(p) + 1, Len(s))
    IN cut(indexOf(s, p))

\* the JavaScript string as a TLA+ string, to look it up in the static tables
RECURSIVE Str(_)
Str(s) == IF s = <<>> THEN "" ELSE Head(s) \o Str(Tail(s))

RECURSIVE Join(_, _)
Join(lines, sep) ==
    IF lines = <<>> THEN <<>>
    ELSE IF Len(lines) = 1 THEN lines[1]
    ELSE lines[1] \o sep \o Join(Tail(lines), sep)

(***************************************************************************)
(* Numbers: NaN is the empty sequence, a number n is <<n>>                 *)
(***************************************************************************)
NaN == <<>>
isNaN(x) == x = NaN

RECURSIVE DigitsValue(_, _, _)
\* the value of the longest prefix of s made of digits of the radix, read
\* after the accumulator acc; digits is the digit alphabet of the radix
DigitsValue(s, digits, acc) ==
    IF s = <<>> \/ CharIndex(digits, ToLowerChar(Head(s))) < 0 THEN acc
    ELSE DigitsValue(Tail(s), digits,
                     acc * Len(digits) + CharIndex(digits, ToLowerChar(Head(s))))

\* parseInt(s, radix) for radix 10 (digits = DigitSeq) and 16 (HexSeq):
\* leading white space is skipped, a sign is read, for radix 16 a 0x prefix is
\* dropped, then the longest prefix of digits is read; NaN when it is empty
parseIntRadix(s, digits) ==
    LET value(sign, v) ==
            IF v = <<>> \/ CharIndex(digits, ToLowerChar(Head(v))) < 0 THEN NaN
            ELSE <<sign * DigitsValue(v, digits, 0)>>
        unprefixed(sign, u) ==
            value(sign, IF /\ Len(digits) = 16
                           /\ Len(u) >= 2 /\ u[1] = "0" /\ u[2] \in {"x", "X"}
                        THEN SubSeq(u, 3, Len(u)) ELSE u)
        unsigned(t) ==
            unprefixed(IF t # <<>> /\ Head(t) = "-" THEN -1 ELSE 1,
                       IF t # <<>> /\ Head(t) \in {"-", "+"} THEN Tail(t) ELSE t)
    IN unsigned(trimStart(s))

\* parseInt(s): no radix given, so decimal unless the text starts with 0x
parseInt(s) ==
    LET radix(t) ==
            IF \/ Len(t) >= 2 /\ t[1] = "0" /\ t[2] \in {"x", "X"}
               \/ Len(t) >= 3 /\ t[1] \in {"-", "+"} /\ t[2] = "0" /\ t[3] \in {"x", "X"}
            THEN HexSeq ELSE DigitSeq
    IN parseIntRadix(s, radix(trimStart(s)))

RECURSIVE IntText(_)
\* the decimal text of a natural number
IntText(n) ==
    IF n < 10 THEN <<DigitSeq[n + 1]>>
    ELSE Append(IntText(n \div 10), DigitSeq[(n % 10) + 1])

(***************************************************************************)
(* Regular expressions.  A pattern is a sequence of items; an item matches *)
(* the characters of the set `in` (or, negated, the others) once ("1"),    *)
(* optionally ("?"), or greedily any number of times ("*", "+").  A        *)
(* regular expression is a sequence of alternative patterns.  Matching is  *)
(* JavaScript's: the leftmost start, the first alternative that matches    *)
(* there, the longest repetition that lets the rest match.                 *)
(***************************************************************************)
One(set) == <<[in |-> set, neg |-> FALSE, q |-> "1"]>>
Opt(set) == <<[in |-> set, neg |-> FALSE, q |-> "?"]>>
Star(set) == <<[in |-> set, neg |-> FALSE, q |-> "*"]>>
Plus(set) == <<[in |-> set, neg |-> FALSE, q |-> "+"]>>
NotStar(set) == <<[in |-> set, neg |-> TRUE, q |-> "*"]>>
NotPlus(set) == <<[in |-> set, neg |-> TRUE, q |-> "+"]>>
\* a literal text, and the same with the i flag
Lit(s) == [i \in 1..Len(s) |-> [in |-> {s[i]}, neg |-> FALSE, q |-> "1"]]
LitI(s) == [i \in 1..Len(s) |->
              [in |-> {ToLowerChar(s[i]), ToUpperChar(s[i])}, neg |-> FALSE, q |-> "1"]]

\* the number of consecutive characters of s from position i the item matches
RunLen(it, s, i) ==
    LET first(stops) == (CHOOSE j \in stops : \A k \in stops : j <= k) - i
    IN first({j \in i..Len(s) + 1 : j = Len(s) + 1 \/ (s[j] \in it.in) = it.neg})

RECURSIVE MatchFrom(_, _, _, _)
\* items k.. of pattern p against s from position i (1-based): ends[j] is the
\* position after the j-th of these items.  A quantified item takes the
\* longest run that lets the rest of the pattern match (greedy, backtracking).
MatchFrom(p, k, s, i) ==
    IF k > Len(p) THEN [ok |-> TRUE, ends |-> <<>>]
    ELSE LET taken(r) == [ok |-> TRUE, ends |-> <<i + r[1]>> \o r[2].ends]
             longest(found) ==
                 IF found = {} THEN [ok |-> FALSE, ends |-> <<>>]
                 ELSE taken(CHOOSE m \in found : \A l \in found : l[1] <= m[1])
             try(lo, hi) ==
                 longest({r \in {<<n, MatchFrom(p, k + 1, s, i + n)>> : n \in lo..hi} :
                            r[2].ok})
             repeat(q, run) ==
                 try(IF q \in {"1", "+"} THEN 1 ELSE 0,
                     IF q \in {"1", "?"} THEN Min(1, run) ELSE run)
         IN repeat(p[k].q, RunLen(p[k], s, i))

RECURSIVE MatchAlt(_, _, _, _)
\* the first alternative of re, from the a-th on, that matches s at position i
MatchAlt(re, a, s, i) ==
    IF a > Len(re) THEN [ok |-> FALSE, alt |-> 0, ends |-> <<>>]
    ELSE LET orNext(r) == IF r.ok THEN [ok |-> TRUE, alt |-> a, ends |-> r.ends]
                          ELSE MatchAlt(re, a + 1, s, i)
         IN orNext(MatchFrom(re[a], 1, s, i))

\* RegExp.exec from position i (1-based): index is the 0-based start of the
\* leftmost match, last the 1-based position after it
Exec(re, s, i) ==
    LET result(j, r) ==
            [ok |-> TRUE, index |-> j - 1,
             last |-> IF r.ends = <<>> THEN j ELSE r.ends[Len(r.ends)],
             alt |-> r.alt, ends |-> r.ends]
        at(m) == result(m[1], m[2])
        leftmost(found) ==
            IF found = {}
            THEN [ok |-> FALSE, index |-> -1, last |-> 0, alt |-> 0, ends |-> <<>>]
            ELSE at(CHOOSE m \in found : \A l \in found : m[1] <= l[1])
    IN leftmost({m \in {<<j, MatchAlt(re, 1, s, j)>> : j \in i..Len(s) + 1} : m[2].ok})

\* RegExp.test, String.match without the g flag, String.search
Test(re, s) == Exec(re, s, 1).ok
Match(re, s) == Exec(re, s, 1)
search(s, re) == Exec(re, s, 1).index

\* the text of a match m of s, and of the capture that spans items a..b of
\* the alternative that matched
Capture(s, m, a, b) ==
    SubSeq(s, IF a = 1 THEN m.index + 1 ELSE m.ends[a - 1], m.ends[b] - 1)

(***************************************************************************)
(* ColorContrastAnalyzer                                                   *)
(***************************************************************************)
\* the WCAG thresholds, in tenths: 4.5, 3.0, 7.0, 4.5
WCAG_AA_NORMAL == 45
WCAG_AA_LARGE == 30
WCAG_AAA_NORMAL == 70
WCAG_AAA_LARGE == 45

Null == [null |-> TRUE]
RGB(r, g, b) == [r |-> r, g |-> g, b |-> b]
IsRGB(x) == DOMAIN x = {"r", "g", "b"}

namedColors ==
    [white |-> RGB(255, 255, 255), black |-> RGB(0, 0, 0), red |-> RGB(255, 0, 0),
     green |-> RGB(0, 128, 0), blue |-> RGB(0, 0, 255), yellow |-> RGB(255, 255, 0),
     cyan |-> RGB(0, 255, 255), magenta |-> RGB(255, 0, 255),
     gray |-> RGB(128, 128, 128), grey |-> RGB(128, 128, 128)]

\* (variant of parseHexColor: a 3-character text is repeated, abc to abcabc)
parseHexColorRepeated(hex0) ==
    LET channels(r, g, b) ==
            IF isNaN(r) \/ isNaN(g) \/ isNaN(b) THEN Null
            ELSE RGB(r[1], g[1], b[1])
        parse(hex) ==
            IF Len(hex) # 6 THEN Null
            ELSE channels(parseIntRadix(substring(hex, 0, 2), HexSeq),
                          parseIntRadix(substring(hex, 2, 4), HexSeq),
                          parseIntRadix(substring(hex, 4, 6), HexSeq))
        expand(hex) == parse(IF Len(hex) = 3 THEN hex \o hex ELSE hex)
    IN expand(removeFirst(hex0, <<"#">>))

parseHexColor(hex0) ==
    LET channels(r, g, b) ==
            IF isNaN(r) \/ isNaN(g) \/ isNaN(b) THEN Null
            ELSE RGB(r[1], g[1], b[1])
        parse(hex) ==
            IF Len(hex) # 6 THEN Null
            ELSE channels(parseIntRadix(substring(hex, 0, 2), HexSeq),
                          parseIntRadix(substring(hex, 2, 4), HexSeq),
                          parseIntRadix(substring(hex, 4, 6), HexSeq))
        expand(hex) ==
            parse(IF Len(hex) = 3
                  THEN <<hex[1], hex[1], hex[2], hex[2], hex[3], hex[3]>>
                  ELSE hex)
    IN expand(removeFirst(hex0, <<"#">>))

\* /rgba?\((\d+),\s*(\d+),\s*(\d+)/ : the captures are items 6, 9 and 12
RgbRegex ==
    << Lit(<<"r","g","b">>) \o Opt({"a"}) \o One({"("}) \o Plus(Digits) \o One({","})
       \o Star(WhiteSpace) \o Plus(Digits) \o One({","}) \o Star(WhiteSpace)
       \o Plus(Digits) >>

parseRgbColor(rgb) ==
    LET channels(r, g, b) ==
            IF isNaN(r) \/ isNaN(g) \/ isNaN(b) THEN Null
            ELSE RGB(r[1], g[1], b[1])
        parse(matches) ==
            IF ~matches.ok THEN Null
            ELSE channels(parseInt(Capture(rgb, matches, 6, 6)),
                          parseInt(Capture(rgb, matches, 9, 9)),
                          parseInt(Capture(rgb, matches, 12, 12)))
    IN parse(Match(RgbRegex, rgb))

\* namedColors is an object literal: a key it does not own is looked up in
\* Object.prototype, whose members with an all-lower-case name are constructor
\* and __proto__; the value found is an object or a function, truthy, with no
\* r, g or b
parseColor(color0) ==
    LET named(key) ==
            IF key \in DOMAIN namedColors THEN namedColors[key]
            ELSE IF key \in {"constructor", "__proto__"} THEN [inherited |-> key]
            ELSE Null
        parse(color) ==
            IF startsWith(color, <<"#">>) THEN parseHexColor(color)
            ELSE IF startsWith(color, <<"r","g","b">>) THEN parseRgbColor(color)
            ELSE named(Str(toLowerCase(color)))
    IN parse(trim(color0))

\* ((c/255 + 0.055) / 1.055) ^ 2.4 in units of 1e-7, for c = 11, 12, ..., 300
PowTable == <<
    33465, 36765, 40247, 43914, 47770, 51815, 56054, 60488, 65121, 69954,
    74990, 80232, 85681, 91341, 97212, 103298, 109601, 116122, 122865,
    129830, 137021, 144438, 152085, 159963, 168074, 176420, 185002, 193824,
    202886, 212190, 221739, 231534, 241576, 251869, 262412, 273209, 284260,
    295568, 307134, 318960, 331048, 343398, 356013, 368895, 382044, 395462,
    409152, 423114, 437350, 451862, 466651, 481718, 497066, 512695, 528606,
    544803, 561285, 578054, 595112, 612461, 630100, 648033, 666259, 684782,
    703601, 722719, 742136, 761854, 781874, 802198, 822827, 843762, 865005,
    886556, 908417, 930590, 953075, 975873, 998987, 1022417, 1046165,
    1070231, 1094617, 1119324, 1144354, 1169707, 1195384, 1221388, 1247718,
    1274377, 1301365, 1328683, 1356333, 1384316, 1412633, 1441285, 1470273,
    1499598, 1529262, 1559265, 1589608, 1620294, 1651322, 1682694, 1714411,
    1746474, 1778884, 1811642, 1844750, 1878208, 1912017, 1946178, 1980693,
    2015563, 2050787, 2086369, 2122308, 2158605, 2195262, 2232280, 2269659,
    2307400, 2345506, 2383976, 2422811, 2462013, 2501583, 2541521, 2581829,
    2622507, 2663556, 2704978, 2746773, 2788943, 2831487, 2874408, 2917706,
    2961383, 3005438, 3049873, 3094689, 3139887, 3185468, 3231432, 3277781,
    3324515, 3371636, 3419144, 3467041, 3515326, 3564001, 3613068, 3662526,
    3712377, 3762621, 3813260, 3864294, 3915725, 3967552, 4019778, 4072402,
    4125426, 4178851, 4232677, 4286905, 4341536, 4396572, 4452012, 4507858,
    4564110, 4620770, 4677838, 4735315, 4793202, 4851499, 4910208, 4969330,
    5028865, 5088813, 5149177, 5209956, 5271151, 5332764, 5394795, 5457245,
    5520114, 5583404, 5647115, 5711248, 5775804, 5840784, 5906188, 5972018,
    6038273, 6104956, 6172066, 6239604, 6307571, 6375969, 6444797, 6514056,
    6583748, 6653873, 6724432, 6795425, 6866853, 6938718, 7011019, 7083758,
    7156935, 7230551, 7304607, 7379104, 7454042, 7529422, 7605245, 7681511,
    7758222, 7835378, 7912979, 7991027, 8069523, 8148466, 8227858, 8307699,
    8387990, 8468732, 8549926, 8631572, 8713671, 8796224, 8879231, 8962694,
    9046612, 9130987, 9215819, 9301109, 9386857, 9473065, 9559734, 9646862,
    9734453, 9822506, 9911021, 10000000, 10089443, 10179352, 10269725,
    10360566, 10451873, 10543648, 10635891, 10728603, 10821785, 10915437,
    11009561, 11104156, 11199224, 11294765, 11390779, 11487268, 11584232,
    11681672, 11779588, 11877982, 11976853, 12076202, 12176031, 12276339,
    12377128, 12478398, 12580149, 12682383, 12785100, 12888301, 12991986,
    13096155, 13200811, 13305952, 13411581, 13517697, 13624301, 13731394,
    13838977, 13947049, 14055613, 14164667, 14274214, 14384253, 14494786
>>

\* one channel of getRelativeLuminance, in units of 1e-7:
\* c/255 <= 0.03928 ? (c/255) / 12.92 : ((c/255 + 0.055) / 1.055) ^ 2.4
\* (the first branch is c * 1e7 / (255 * 12.92) = c * 5e7 / 16473, rounded)
Linearize(c) ==
    IF c * 100000 <= 3928 * 255
    THEN (2 * c * 50000000 + 16473) \div (2 * 16473)
    ELSE PowTable[c - 10]

\* relative luminance in units of 1e-8; NaN for a value without channels.
\* weightedSum is 0.2126 * r + 0.7152 * g + 0.0722 * b for r, g, b in units of
\* 1e-7, rounded to units of 1e-8 (each channel is split at 1000 to stay
\* within 32 bits)
getRelativeLuminance(rgb) ==
    LET weightedSum(r, g, b) ==
            2126 * (r \div 1000) + 7152 * (g \div 1000) + 722 * (b \div 1000)
            + (2126 * (r % 1000) + 7152 * (g % 1000) + 722 * (b % 1000) + 500)
              \div 1000
    IN IF ~IsRGB(rgb) THEN NaN
       ELSE <<weightedSum(Linearize(rgb.r), Linearize(rgb.g), Linearize(rgb.b))>>

\* (mutation for C8: the first colour's luminance over the second's, whichever
\* is the lighter)
calculateContrastRatioInOrder(rgb1, rgb2) ==
    LET ratio(l1, l2) ==
            IF isNaN(l1) \/ isNaN(l2) THEN NaN
            ELSE <<l1[1] + 5000000, l2[1] + 5000000>>
    IN ratio(getRelativeLuminance(rgb1), getRelativeLuminance(rgb2))

\* the contrast ratio as the fraction <<lighter + 0.05, darker + 0.05>> of
\* luminances in units of 1e-8; NaN when a luminance is NaN
calculateContrastRatio(rgb1, rgb2) ==
    LET ratio(l1, l2) ==
            IF isNaN(l1) \/ isNaN(l2) THEN NaN
            ELSE <<(IF l1[1] > l2[1] THEN l1[1] ELSE l2[1]) + 5000000,
                  Min(l1[1], l2[1]) + 5000000>>
    IN ratio(getRelativeLuminance(rgb1), getRelativeLuminance(rgb2))

\* ratio >= tenths / 10 (false for NaN)
RatioAtLeast(ratio, tenths) ==
    /\ ~isNaN(ratio)
    /\ 10 * (ratio[1] \div ratio[2]) + (10 * (ratio[1] % ratio[2])) \div ratio[2]
         >= tenths

\* Math.round(ratio * 100) / 100, in hundredths (NaN for NaN)
RoundHundredths(ratio) ==
    LET digits(n, d, r1, r2) ==
            <<100 * (n \div d) + 10 * (r1 \div d) + (r2 \div d)
              + (IF 2 * (r2 % d) >= d THEN 1 ELSE 0)>>
        tenths(n, d, r1) == digits(n, d, r1, 10 * (r1 % d))
        units(n, d) == tenths(n, d, 10 * (n % d))
    IN IF isNaN(ratio) THEN NaN ELSE units(ratio[1], ratio[2])

ParseError == [error |-> "Invalid color format. Use hex, rgb, or rgba format."]
Threw(x) == DOMAIN x = {"error"}

\* (variant of analyzeContrast: the four results are taken from the rounded
\* ratio that is reported)
analyzeContrastRounded(foreground_, background_) ==
    LET flags(reported) ==
            [foreground |-> foreground_,
             background |-> background_,
             contrastRatio |-> reported,
             passesAA |-> ~isNaN(reported) /\ reported[1] >= 10 * WCAG_AA_NORMAL,
             passesAAA |-> ~isNaN(reported) /\ reported[1] >= 10 * WCAG_AAA_NORMAL,
             passesAALarge |-> ~isNaN(reported) /\ reported[1] >= 10 * WCAG_AA_LARGE,
             passesAAALarge |-> ~isNaN(reported) /\ reported[1] >= 10 * WCAG_AAA_LARGE]
        analyze(fgRgb, bgRgb) ==
            IF fgRgb = Null \/ bgRgb = Null THEN ParseError
            ELSE flags(RoundHundredths(calculateContrastRatio(fgRgb, bgRgb)))
    IN analyze(parseColor(foreground_), parseColor(background_))

analyzeContrast(foreground_, background_) ==
    LET result(contrastRatio) ==
            [foreground |-> foreground_,
             background |-> background_,
             contrastRatio |-> RoundHundredths(contrastRatio),
             passesAA |-> RatioAtLeast(contrastRatio, WCAG_AA_NORMAL),
             passesAAA |-> RatioAtLeast(contrastRatio, WCAG_AAA_NORMAL),
             passesAALarge |-> RatioAtLeast(contrastRatio, WCAG_AA_LARGE),
             passesAAALarge |-> RatioAtLeast(contrastRatio, WCAG_AAA_LARGE)]
        analyze(fgRgb, bgRgb) ==
            IF fgRgb = Null \/ bgRgb = Null THEN ParseError
            ELSE result(calculateContrastRatio(fgRgb, bgRgb))
    IN analyze(parseColor(foreground_), parseColor(background_))

\* the channel values c and lightness values l for which the double c * (l / 100)
\* falls just under a half that the exact product reaches (45 * 0.7 is
\* 31.499999999999996), for c up to 300
RoundsDown ==
    {<<45, 70>>, <<85, 70>>, <<90, 35>>, <<165, 70>>, <<170, 35>>, <<175, 70>>}

\* Math.round(c * factor) with factor = lightness / 100; NaN for no channel
ScaleChannel(c, lightness) ==
    IF isNaN(c) THEN NaN
    ELSE IF <<c[1], lightness>> \in RoundsDown
    THEN <<(2 * c[1] * lightness + 100) \div 200 - 1>>
    ELSE <<(2 * c[1] * lightness + 100) \div 200>>

\* `${r}` of a channel
ChannelText(x) ==
    IF isNaN(x) THEN <<"N","a","N">>
    ELSE IF x[1] < 0 THEN <<"-">> \o IntText(0 - x[1])
    ELSE IntText(x[1])

\* rgb.r, rgb.g, rgb.b: undefined, NaN once multiplied, for a value without
\* channels
Channel(rgb, name) == IF IsRGB(rgb) THEN <<rgb[name]>> ELSE NaN

adjustLightness(color_, lightness) ==
    LET text(r, g, b) ==
            <<"r","g","b","(">> \o ChannelText(r) \o <<","," ">> \o ChannelText(g) \o <<","," ">>
            \o ChannelText(b) \o <<")">>
        scaled(rgb) ==
            IF rgb = Null THEN color_
            ELSE text(ScaleChannel(Channel(rgb, "r"), lightness),
                      ScaleChannel(Channel(rgb, "g"), lightness),
                      ScaleChannel(Channel(rgb, "b"), lightness))
    IN scaled(parseColor(color_))

\* the fallback of suggestAccessibleColor: bgLuminance > 0.5 ? '#000000' : '#FFFFFF'
FallbackColor(bgLuminance) ==
    IF ~isNaN(bgLuminance) /\ bgLuminance[1] > 50000000 THEN <<"#","0","0","0","0","0","0">>
    ELSE <<"#","F","F","F","F","F","F">>

\* the for loop of suggestAccessibleColor from the given lightness on, and the
\* fallback after it; targetRatio_ in tenths
RECURSIVE SuggestFrom(_, _, _, _)
SuggestFrom(originalColor_, bgRgb, targetRatio_, lightness) ==
    LET tested(testColor, testRgb) ==
            IF /\ testRgb # Null
               /\ RatioAtLeast(calculateContrastRatio(testRgb, bgRgb), targetRatio_)
            THEN testColor
            ELSE SuggestFrom(originalColor_, bgRgb, targetRatio_, lightness + 5)
        test(testColor) == tested(testColor, parseColor(testColor))
    IN IF lightness > 100 THEN FallbackColor(getRelativeLuminance(bgRgb))
       ELSE test(adjustLightness(originalColor_, lightness))

\* (variant of suggestAccessibleColor: of the scaled colours that meet the
\* target, the one of the largest factor)
suggestAccessibleColorDescending(originalColor_, backgroundColor_, targetRatio_) ==
    LET bgRgb == parseColor(backgroundColor_)
        meets(lightness) ==
            LET testRgb == parseColor(adjustLightness(originalColor_, lightness))
            IN /\ testRgb # Null
               /\ RatioAtLeast(calculateContrastRatio(testRgb, bgRgb), targetRatio_)
        found == {k \in 0..20 : meets(5 * k)}
    IN IF bgRgb = Null THEN Null
       ELSE IF found = {} THEN FallbackColor(getRelativeLuminance(bgRgb))
       ELSE adjustLightness(originalColor_,
                            5 * (CHOOSE k \in found : \A j \in found : j <= k))

\* (variant of suggestAccessibleColor: the fallback also for a background that
\* does not parse)
suggestAccessibleColorAlways(originalColor_, backgroundColor_, targetRatio_) ==
    LET scan(bgRgb) ==
            IF bgRgb = Null THEN FallbackColor(NaN)
            ELSE SuggestFrom(originalColor_, bgRgb, targetRatio_, 0)
    IN scan(parseColor(backgroundColor_))

suggestAccessibleColor(originalColor_, backgroundColor_, targetRatio_) ==
    LET scan(bgRgb) ==
            IF bgRgb = Null THEN Null
            ELSE SuggestFrom(originalColor_, bgRgb, targetRatio_, 0)
    IN scan(parseColor(backgroundColor_))

(***************************************************************************)
(* ARIAValidator                                                           *)
(***************************************************************************)
Undefined == [undefined |-> TRUE]
\* an optional value: absent, or present with a value
Absent == <<>>
Present(x) == <<x>>

VALID_ROLES ==
    <<"article", "columnheader", "definition", "directory", "document",
      "feed", "figure", "group", "heading", "img", "list", "listitem",
      "math", "none", "note", "presentation", "region", "row",
      "rowgroup", "rowheader", "separator", "table", "term", "toolbar",
      "tooltip",
      "banner", "complementary", "contentinfo", "form", "main",
      "navigation", "region", "search",
      "alert", "alertdialog", "button", "checkbox", "dialog", "gridcell",
      "link", "log", "marquee", "menuitem", "menuitemcheckbox",
      "menuitemradio", "option", "progressbar", "radio", "scrollbar",
      "searchbox", "slider", "spinbutton", "status", "switch", "tab",
      "tabpanel", "textbox", "timer", "tooltip", "treeitem",
      "combobox", "grid", "listbox", "menu", "menubar", "radiogroup",
      "tablist", "tree", "treegrid">>

\* Array.includes
includes(array, x) == \E i \in 1..Len(array) : array[i] = x

Property(name, type, allowedValues) ==
    [name |-> name, type |-> type, allowedValues |-> allowedValues]

\* the entries of ARIA_PROPERTIES; allowedValues is Absent where the entry
\* has none
ARIA_PROPERTIES ==
    { Property("aria-activedescendant", "string", Absent),
      Property("aria-atomic", "boolean", Absent),
      Property("aria-autocomplete", "token", Present(<<"none", "inline", "list", "both">>)),
      Property("aria-busy", "boolean", Absent),
      Property("aria-checked", "tristate", Present(<<"true", "false", "mixed">>)),
      Property("aria-controls", "tokenlist", Absent),
      Property("aria-current", "token",
               Present(<<"page", "step", "location", "date", "time", "true", "false">>)),
      Property("aria-describedby", "tokenlist", Absent),
      Property("aria-details", "tokenlist", Absent),
      Property("aria-disabled", "boolean", Absent),
      Property("aria-expanded", "boolean", Absent),
      Property("aria-haspopup", "token",
               Present(<<"false", "true", "menu", "listbox", "tree", "grid", "dialog">>)),
      Property("aria-hidden", "boolean", Absent),
      Property("aria-invalid", "token", Present(<<"false", "true", "grammar", "spelling">>)),
      Property("aria-label", "string", Absent),
      Property("aria-labelledby", "tokenlist", Absent),
      Property("aria-level", "integer", Absent),
      Property("aria-live", "token", Present(<<"off", "polite", "assertive">>)),
      Property("aria-modal", "boolean", Absent),
      Property("aria-multiline", "boolean", Absent),
      Property("aria-multiselectable", "boolean", Absent),
      Property("aria-orientation", "token", Present(<<"horizontal", "vertical", "undefined">>)),
      Property("aria-placeholder", "string", Absent),
      Property("aria-pressed", "tristate", Present(<<"true", "false", "mixed">>)),
      Property("aria-readonly", "boolean", Absent),
      Property("aria-required", "boolean", Absent),
      Property("aria-selected", "boolean", Absent),
      Property("aria-valuemax", "number", Absent),
      Property("aria-valuemin", "number", Absent),
      Property("aria-valuenow", "number", Absent),
      Property("aria-valuetext", "string", Absent) }

\* (variant of the results: the recommendation is kept in a valid result too)
ValidationResultWithAdvice(isValid, attribute, value, allowedValues, recommendation) ==
    [isValid |-> isValid, attribute |-> attribute, value |-> value,
     allowedValues |-> allowedValues, recommendation |-> recommendation]

ValidationResult(isValid, attribute, value, allowedValues, recommendation) ==
    [isValid |-> isValid, attribute |-> attribute, value |-> value,
     allowedValues |-> allowedValues,
     recommendation |-> IF isValid THEN Undefined ELSE recommendation]

validateRole(role) ==
    ValidationResult(includes(VALID_ROLES, Str(role)), <<"r","o","l","e">>, role,
                     Present(VALID_ROLES),
                     [text |-> "is not a valid ARIA role. Use one of the standard WAI-ARIA roles.",
                      arg |-> role])

MustBeOneOf(validValues) == [text |-> "Value must be one of: ", arg |-> validValues]

\* (variant of validateBooleanValue: the value is compared as it is written)
validateBooleanValueExact(attribute, value, allowedValues) ==
    LET validValues == IF allowedValues = Absent THEN <<"true", "false">>
                       ELSE allowedValues[1]
    IN [isValid |-> includes(validValues, Str(value)),
        attribute |-> attribute, value |-> value,
        allowedValues |-> Present(validValues),
        recommendation |-> IF includes(validValues, Str(value)) THEN Undefined
                           ELSE [text |-> "Value must be one of: ", arg |-> validValues]]

validateBooleanValue(attribute, value, allowedValues) ==
    LET validValues == IF allowedValues = Absent THEN <<"true", "false">>
                       ELSE allowedValues[1]
    IN ValidationResult(includes(validValues, Str(toLowerCase(value))),
                        attribute, value, Present(validValues),
                        MustBeOneOf(validValues))

validateTristateValue(attribute, value) ==
    LET validValues == <<"true", "false", "mixed">>
    IN ValidationResult(includes(validValues, Str(toLowerCase(value))),
                        attribute, value, Present(validValues),
                        MustBeOneOf(validValues))

validateTokenValue(attribute, value, allowedValues) ==
    ValidationResult(includes(allowedValues, Str(toLowerCase(value))),
                     attribute, value, Present(allowedValues),
                     MustBeOneOf(allowedValues))

RECURSIVE splitWhiteSpace(_, _)
\* String.split(/\s+/): cur is the piece being read
splitWhiteSpace(s, cur) ==
    IF s = <<>> THEN <<cur>>
    ELSE IF Head(s) \in WhiteSpace
         THEN <<cur>> \o splitWhiteSpace(trimStart(s), <<>>)
    ELSE splitWhiteSpace(Tail(s), Append(cur, Head(s)))

validateTokenListValue(attribute, value) ==
    LET \* /^[a-zA-Z][\w\-:.]*$/
        isIdReference(token) ==
            /\ token # <<>>
            /\ token[1] \in Letters
            /\ \A i \in 2..Len(token) : token[i] \in WordChars \cup {"-", ":", "."}
        allValid(tokens) == \A i \in 1..Len(tokens) : isIdReference(tokens[i])
    IN ValidationResult(allValid(splitWhiteSpace(trim(value), <<>>)),
                        attribute, value, Absent,
                        [text |-> "Value must be a space-separated list of valid ID references",
                         arg |-> <<>>])

\* /^-?\d+$/.test(value)
validateIntegerValue(attribute, value) ==
    LET allDigits(digits) ==
            digits # <<>> /\ \A i \in 1..Len(digits) : digits[i] \in Digits
    IN ValidationResult(allDigits(IF value # <<>> /\ Head(value) = "-"
                                  THEN Tail(value) ELSE value),
                        attribute, value, Absent,
                        [text |-> "Value must be an integer", arg |-> <<>>])

\* !isNaN(parseFloat(value)): after white space and a sign the text starts
\* with a digit, with a point and a digit, or with Infinity
ParsesAsFloat(value) ==
    LET number(u) ==
            \/ u # <<>> /\ u[1] \in Digits
            \/ Len(u) >= 2 /\ u[1] = "." /\ u[2] \in Digits
            \/ startsWith(u, <<"I","n","f","i","n","i","t","y">>)
        unsigned(t) ==
            number(IF t # <<>> /\ Head(t) \in {"-", "+"} THEN Tail(t) ELSE t)
    IN unsigned(trimStart(value))

validateNumberValue(attribute, value) ==
    ValidationResult(ParsesAsFloat(value), attribute, value, Absent,
                     [text |-> "Value must be a valid number", arg |-> <<>>])

validateStringValue(attribute, value) ==
    ValidationResult(Len(trim(value)) > 0, attribute, value, Absent,
                     [text |-> "Value must be a non-empty string", arg |-> <<>>])

validateAttribute(attributeName, value) ==
    LET validate(property) ==
            CASE property.type = "boolean" ->
                   validateBooleanValue(attributeName, value, property.allowedValues)
              [] property.type = "tristate" -> validateTristateValue(attributeName, value)
              [] property.type = "token" ->
                   validateTokenValue(attributeName, value,
                                      IF property.allowedValues = Absent THEN <<>>
                                      ELSE property.allowedValues[1])
              [] property.type = "tokenlist" -> validateTokenListValue(attributeName, value)
              [] property.type = "integer" -> validateIntegerValue(attributeName, value)
              [] property.type = "number" -> validateNumberValue(attributeName, value)
              [] property.type = "string" -> validateStringValue(attributeName, value)
              [] OTHER -> ValidationResult(TRUE, attributeName, value, Absent, Undefined)
        lookup(known) ==
            IF known = {}
            THEN ValidationResult(FALSE, attributeName, value, Absent,
                                  [text |-> "is not a valid ARIA attribute",
                                   arg |-> attributeName])
            ELSE validate(CHOOSE p \in known : TRUE)
    IN IF ~startsWith(attributeName, <<"a","r","i","a","-">>)
       THEN ValidationResult(FALSE, attributeName, value, Absent,
                             [text |-> "Attribute name must start with \"aria-\"", arg |-> <<>>])
       ELSE lookup({p \in ARIA_PROPERTIES : p.name = Str(attributeName)})

(***************************************************************************)
(* AccessibilityAuditor: the issue record and the scanners                 *)
(***************************************************************************)
\* (mutation for C3: the severity is looked up by the kind alone)
createIssueByKind(type, severity, wcagLevel, message, line, column, code) ==
    [id |-> <<type, line, column>>, type |-> type,
     severity |-> IF type \in {"keyboard-trap", "missing-form-label"} THEN "serious"
                  ELSE severity,
     wcagLevel |-> wcagLevel, message |-> message, line |-> line,
     column |-> column, code |-> code]

\* (mutation for C24: lines and columns are counted from 1)
createIssueOneBased(type, severity, wcagLevel, message, line, column, code) ==
    [id |-> <<type, line, column>>, type |-> type, severity |-> severity,
     wcagLevel |-> wcagLevel, message |-> message, line |-> line + 1,
     column |-> column + 1, code |-> code]

\* createIssue; of the record's texts the message is kept, as its fixed text
\* and the value interpolated into it (empty when there is none); the id is
\* `${type}-${line}-${column}`
createIssue(type, severity, wcagLevel, message, line, column, code) ==
    [id |-> <<type, line, column>>, type |-> type, severity |-> severity,
     wcagLevel |-> wcagLevel, message |-> message, line |-> line,
     column |-> column, code |-> code]

Quotes == {"\"", "'"}
\* \s*= after an attribute name
SpacesEquals == Star(WhiteSpace) \o One({"="})

ImgRegex == << Lit(<<"<","i","m","g">>) \o One(WhiteSpace) >>
AltRegex == << Lit(<<"a","l","t">>) \o SpacesEquals >>
InputRegex == << Lit(<<"<","i","n","p","u","t">>) \o One(WhiteSpace) >>
HasLabelRegex ==
    << Lit(<<"a","r","i","a","-","l","a","b","e","l">>) \o SpacesEquals,
       Lit(<<"a","r","i","a","-","l","a","b","e","l","l","e","d","b","y">>) \o SpacesEquals,
       Lit(<<"i","d">>) \o SpacesEquals >>
EmptyButtonRegex ==
    << Lit(<<"<","b","u","t","t","o","n">>) \o NotStar({">"}) \o One({">"}) \o Star(WhiteSpace)
       \o Lit(<<"<","/","b","u","t","t","o","n",">">>) >>
EmptyLinkRegex ==
    << Lit(<<"<","a">>) \o One(WhiteSpace) \o NotStar({">"}) \o One({">"})
       \o Star(WhiteSpace) \o Lit(<<"<","/","a",">">>) >>
\* /tabindex\s*=\s*["'](\d+)["']/ : the capture is item 13
TabindexRegex ==
    << Lit(<<"t","a","b","i","n","d","e","x">>) \o SpacesEquals \o Star(WhiteSpace) \o One(Quotes)
       \o Plus(Digits) \o One(Quotes) >>
\* /aria-[\w-]+\s*=\s*["']([^"']*)["']/g : the capture is item 11
AriaRegex ==
    << Lit(<<"a","r","i","a","-">>) \o Plus(WordChars \cup {"-"}) \o SpacesEquals
       \o Star(WhiteSpace) \o One(Quotes) \o NotStar(Quotes) \o One(Quotes) >>
\* /role\s*=\s*["']([^"']*)["']/ : the capture is item 9
RoleRegex ==
    << Lit(<<"r","o","l","e">>) \o SpacesEquals \o Star(WhiteSpace) \o One(Quotes)
       \o NotStar(Quotes) \o One(Quotes) >>
HtmlTagRegex == << Lit(<<"<","h","t","m","l">>) \o NotStar({">"}) \o One({">"}) >>
HtmlLangRegex == << Lit(<<"<","h","t","m","l">>) \o NotStar({">"}) \o Lit(<<"l","a","n","g">>) \o SpacesEquals >>

\* (mutation for C19: only the first match is seen)
matchAllFirst(re, s, i) ==
    LET first(m) == IF m.ok THEN <<m>> ELSE <<>>
    IN first(Exec(re, s, i))

RECURSIVE matchAll(_, _, _)
\* String.matchAll of a g-flag expression: the successive matches from i on
matchAll(re, s, i) ==
    LET rest(m) ==
            IF ~m.ok THEN <<>>
            ELSE <<m>> \o matchAll(re, s, IF m.last = m.index + 1 THEN m.last + 1
                                          ELSE m.last)
    IN rest(Exec(re, s, i))

RECURSIVE Flatten(_)
Flatten(seqs) == IF seqs = <<>> THEN <<>> ELSE Head(seqs) \o Flatten(Tail(seqs))

\* the invalid-aria-attribute issue of one match of AriaRegex, if any
AriaIssue(line, lineIndex, match) ==
    LET issue(fullMatch, attrName, validation) ==
            IF ~validation.isValid
            THEN <<createIssue("invalid-aria-attribute", "serious", "A",
                               <<"Invalid ARIA attribute: ", attrName>>,
                               lineIndex, indexOf(line, fullMatch), trim(line))>>
            ELSE <<>>
        validated(fullMatch, attrName, attrValue) ==
            issue(fullMatch, attrName, validateAttribute(attrName, attrValue))
        split(fullMatch) ==
            validated(fullMatch,
                      trim(SubSeq(fullMatch, 1, indexOf(fullMatch, <<"=">>))),
                      Capture(line, match, 11, 11))
    IN split(SubSeq(line, match.index + 1, match.last - 1))

\* the body of auditHTML's lines.forEach for one line
auditHTMLLine(line, lineIndex) ==
    LET tabindexIssue(tabindexMatch) ==
            IF tabindexMatch.ok /\ parseInt(Capture(line, tabindexMatch, 13, 13))[1] > 0
            THEN <<createIssue("improper-tab-index", "moderate", "A",
                               <<"Positive tabindex value", <<>>>>,
                               lineIndex, indexOf(line, <<"t","a","b","i","n","d","e","x">>), trim(line))>>
            ELSE <<>>
        ariaIssues(ariaMatches) ==
            Flatten([k \in 1..Len(ariaMatches) |-> AriaIssue(line, lineIndex, ariaMatches[k])])
        invalidRole(role) ==
            IF ~validateRole(role).isValid
            THEN <<createIssue("missing-role", "serious", "A",
                               <<"Invalid ARIA role: ", role>>,
                               lineIndex, indexOf(line, <<"r","o","l","e">>), trim(line))>>
            ELSE <<>>
        roleIssue(roleMatch) ==
            IF roleMatch.ok THEN invalidRole(Capture(line, roleMatch, 9, 9)) ELSE <<>>
    IN
    (IF Test(ImgRegex, line) /\ ~Test(AltRegex, line)
     THEN <<createIssue("missing-alt-text", "critical", "A",
                        <<"Image missing alt attribute", <<>>>>,
                        lineIndex, indexOf(line, <<"<","i","m","g">>), trim(line))>>
     ELSE <<>>)
    \o
    (IF Test(InputRegex, line) /\ ~Test(HasLabelRegex, line)
     THEN <<createIssue("missing-form-label", "serious", "A",
                        <<"Form input missing label", <<>>>>,
                        lineIndex, indexOf(line, <<"<","i","n","p","u","t">>), trim(line))>>
     ELSE <<>>)
    \o
    (IF Test(EmptyButtonRegex, line)
     THEN <<createIssue("empty-button", "critical", "A",
                        <<"Empty button element", <<>>>>,
                        lineIndex, indexOf(line, <<"<","b","u","t","t","o","n">>), trim(line))>>
     ELSE <<>>)
    \o
    (IF Test(EmptyLinkRegex, line)
     THEN <<createIssue("empty-link", "serious", "A",
                        <<"Empty link element", <<>>>>,
                        lineIndex, indexOf(line, <<"<","a">>), trim(line))>>
     ELSE <<>>)
    \o tabindexIssue(Match(TabindexRegex, line))
    \o ariaIssues(matchAll(AriaRegex, line, 1))
    \o roleIssue(Match(RoleRegex, line))

\* document.getText() of a document held as its lines, and text.split('\n')
getText(lines) == Join(lines, <<"\n">>)

\* (mutation for C23: the lang rule is left out)
auditHTMLWithoutLang(lines) ==
    Flatten([i \in 1..Len(lines) |-> auditHTMLLine(lines[i], i - 1)])

auditHTML(lines) ==
    LET langIssue(text) ==
            IF Test(HtmlTagRegex, text) /\ ~Test(HtmlLangRegex, text)
            THEN <<createIssue("missing-lang-attribute", "serious", "A",
                               <<"HTML element missing lang attribute", <<>>>>,
                               0, 0, <<"<","h","t","m","l",">">>)>>
            ELSE <<>>
    IN Flatten([i \in 1..Len(lines) |-> auditHTMLLine(lines[i], i - 1)])
       \o langIssue(getText(lines))

OnClickRegex == << Lit(<<"o","n","C","l","i","c","k">>) \o SpacesEquals >>
\* /<(button|a|input|select|textarea)\s/
NativeControlRegex ==
    << Lit(<<"<","b","u","t","t","o","n">>) \o One(WhiteSpace), Lit(<<"<","a">>) \o One(WhiteSpace),
       Lit(<<"<","i","n","p","u","t">>) \o One(WhiteSpace), Lit(<<"<","s","e","l","e","c","t">>) \o One(WhiteSpace),
       Lit(<<"<","t","e","x","t","a","r","e","a">>) \o One(WhiteSpace) >>
KeyHandlerRegex ==
    << Lit(<<"o","n","K","e","y","P","r","e","s","s">>) \o SpacesEquals, Lit(<<"o","n","K","e","y","D","o","w","n">>) \o SpacesEquals,
       Lit(<<"o","n","K","e","y","U","p">>) \o SpacesEquals >>
LabelRegex == << Lit(<<"<","l","a","b","e","l">>) \o NotStar({">"}) \o One({">"}) >>
HtmlForRegex == << Lit(<<"h","t","m","l","F","o","r">>) \o SpacesEquals >>

\* the body of auditJSX's lines.forEach for one line
auditJSXLine(line, lineIndex) ==
    (IF /\ Test(OnClickRegex, line) /\ ~Test(NativeControlRegex, line)
        /\ ~Test(KeyHandlerRegex, line)
     THEN <<createIssue("keyboard-trap", "serious", "A",
                        <<"onClick without keyboard handler", <<>>>>,
                        lineIndex, indexOf(line, <<"o","n","C","l","i","c","k">>), trim(line))>>
     ELSE <<>>)
    \o
    (IF Test(ImgRegex, line) /\ ~Test(AltRegex, line)
     THEN <<createIssue("missing-alt-text", "critical", "A",
                        <<"Image missing alt attribute", <<>>>>,
                        lineIndex, indexOf(line, <<"<","i","m","g">>), trim(line))>>
     ELSE <<>>)
    \o
    (IF Test(LabelRegex, line) /\ ~Test(HtmlForRegex, line)
     THEN <<createIssue("missing-form-label", "moderate", "A",
                        <<"Label without htmlFor attribute", <<>>>>,
                        lineIndex, indexOf(line, <<"<","l","a","b","e","l">>), trim(line))>>
     ELSE <<>>)

auditJSX(lines) == Flatten([i \in 1..Len(lines) |-> auditJSXLine(lines[i], i - 1)])

\* /color\s*:\s*([^;]+)/i : the capture is item 9
ColorRegex ==
    << LitI(<<"c","o","l","o","r">>) \o Star(WhiteSpace) \o One({":"}) \o Star(WhiteSpace)
       \o NotPlus({";"}) >>
\* /background(?:-color)?\s*:\s*([^;]+)/i : the optional group is tried first;
\* the capture is the last item of either alternative
BackgroundRegex ==
    << LitI(<<"b","a","c","k","g","r","o","u","n","d","-","c","o","l","o","r">>) \o Star(WhiteSpace) \o One({":"})
       \o Star(WhiteSpace) \o NotPlus({";"}),
       LitI(<<"b","a","c","k","g","r","o","u","n","d">>) \o Star(WhiteSpace) \o One({":"})
       \o Star(WhiteSpace) \o NotPlus({";"}) >>

\* JavaScript truthiness of an optional string
Truthy(x) == x # Absent /\ x[1] # <<>>

\* the body of extractColorPairs' lines.forEach for the line at index (0-based),
\* on the loop's variables st = [currentFg, currentBg, ruleStartLine, pairs]
extractColorPairsLine(lines, index, st) ==
    LET pushed(line, start, fg, bg) ==
            [currentFg |-> fg, currentBg |-> bg, ruleStartLine |-> start,
             pairs |-> IF indexOf(line, <<"}">>) >= 0 /\ (Truthy(fg) \/ Truthy(bg))
                       THEN Append(st.pairs,
                                   [line |-> start, foreground |-> fg, background |-> bg,
                                    code |-> Join(SubSeq(lines, start + 1, index + 1),
                                                  <<"\n">>)])
                       ELSE st.pairs]
        matched(line, open, colorMatch, bgMatch) ==
            pushed(line,
                   IF open THEN index ELSE st.ruleStartLine,
                   IF colorMatch.ok THEN Present(trim(Capture(line, colorMatch, 9, 9)))
                   ELSE IF open THEN Absent ELSE st.currentFg,
                   IF bgMatch.ok
                   THEN Present(trim(Capture(line, bgMatch, Len(bgMatch.ends),
                                             Len(bgMatch.ends))))
                   ELSE IF open THEN Absent ELSE st.currentBg)
        scan(line) ==
            matched(line, indexOf(line, <<"{">>) >= 0,
                    Match(ColorRegex, line), Match(BackgroundRegex, line))
    IN scan(lines[index + 1])

RECURSIVE extractColorPairsFrom(_, _, _)
extractColorPairsFrom(lines, index, st) ==
    IF index >= Len(lines) THEN st.pairs
    ELSE extractColorPairsFrom(lines, index + 1, extractColorPairsLine(lines, index, st))

extractColorPairs(lines) ==
    extractColorPairsFrom(lines, 0,
        [currentFg |-> Absent, currentBg |-> Absent, ruleStartLine |-> 0, pairs |-> <<>>])

\* `${contrastRatio}` of a ratio held in hundredths: 21, 4.5, 1.05, NaN
NumberText(x) ==
    LET text(h) ==
            IntText(h \div 100)
            \o (IF h % 100 = 0 THEN <<>>
                ELSE IF h % 10 = 0 THEN <<".", DigitSeq[((h % 100) \div 10) + 1]>>
                ELSE <<".", DigitSeq[((h % 100) \div 10) + 1], DigitSeq[(h % 10) + 1]>>)
    IN IF isNaN(x) THEN <<"N","a","N">> ELSE text(x[1])

\* the body of auditCSS's colorPairs.forEach for one pair
auditCSSPair(pair) ==
    LET issue(result) ==
            IF Threw(result) THEN <<>>
            ELSE IF ~result.passesAA
            THEN <<createIssue("low-color-contrast", "serious", "AA",
                               <<"Low color contrast ratio: ",
                                 NumberText(result.contrastRatio) \o <<":","1">>>>,
                               pair.line, 0, pair.code)>>
            ELSE <<>>
    IN IF Truthy(pair.foreground) /\ Truthy(pair.background)
       THEN issue(analyzeContrast(pair.foreground[1], pair.background[1]))
       ELSE <<>>

auditCSSPairs(colorPairs_) ==
    Flatten([k \in 1..Len(colorPairs_) |-> auditCSSPair(colorPairs_[k])])

auditCSS(lines) == auditCSSPairs(extractColorPairs(lines))

AutofocusRegex == << Lit(<<"a","u","t","o","f","o","c","u","s">>), Lit(<<"a","u","t","o","F","o","c","u","s">>) >>

auditCommonIssuesLine(line, lineIndex) ==
    IF Test(AutofocusRegex, line)
    THEN <<createIssue("keyboard-trap", "moderate", "A",
                       <<"Autofocus can cause accessibility issues", <<>>>>,
                       lineIndex, search(line, AutofocusRegex), trim(line))>>
    ELSE <<>>

auditCommonIssues(lines) ==
    Flatten([i \in 1..Len(lines) |-> auditCommonIssuesLine(lines[i], i - 1)])

\* updateDiagnostics: one diagnostic per issue
mapSeverityToDiagnostic(severity) ==
    CASE severity = "critical" -> "Error"
      [] severity = "serious" -> "Warning"
      [] severity = "moderate" -> "Information"
      [] severity = "minor" -> "Hint"
      [] OTHER -> "Information"

Diagnostic(issue) ==
    [range |-> <<issue.line, issue.column, issue.line, issue.column + Len(issue.code)>>,
     message |-> issue.message, severity |-> mapSeverityToDiagnostic(issue.severity),
     code |-> issue.type, source |-> "Accessibility Enhancer"]

\* diagnosticCollection.set(uri, issues.map(...)) on the collection
updateDiagnostics(collection, uri, issueList) ==
    [u \in DOMAIN collection \cup {uri} |->
        IF u = uri THEN [k \in 1..Len(issueList) |-> Diagnostic(issueList[k])]
        ELSE collection[u]]

(***************************************************************************)
(* The documents and content types audited                                 *)
(***************************************************************************)
HtmlLanguages == {"html", "handlebars", "php"}
JsxLanguages == {"typescript", "typescriptreact", "javascript", "javascriptreact"}
CssLanguages == {"css", "scss", "less"}

\* the documented quick-test page
QuickTestPage ==
    << <<"<","!","D","O","C","T","Y","P","E"," ","h","t","m","l",">">>,
       <<"<","h","t","m","l",">">>,
       <<"<","b","o","d","y",">">>,
       <<" "," "," "," ","<","i","m","g"," ","s","r","c","=","\"","t","e","s","t",".","j","p","g","\"",">">>,
       <<" "," "," "," ","<","b","u","t","t","o","n",">","<","/","b","u","t","t","o","n",">">>,
       <<" "," "," "," ","<","i","n","p","u","t"," ","t","y","p","e","=","\"","t","e","x","t","\"",">">>,
       <<"<","/","b","o","d","y",">">>,
       <<"<","/","h","t","m","l",">">> >>

\* the documents audited
Documents ==
    << QuickTestPage,
       \* a page of markup: an empty link, attributes that do not validate
       << <<"<","h","t","m","l"," ","l","a","n","g","=","\"","e","n","\"",">">>,
          <<"<","a"," ","h","r","e","f","=","\"","#","\"",">","<","/","a",">">>,
          <<"<","d","i","v"," ","r","o","l","e","=","\"","c","l","i","c","k","a","b","l","e","\""," ","a","r","i","a","-","l","i","v","e","=","\"","l","o","u","d","\""," ","t","a","b","i","n","d","e","x","=","\"","3","\""," ","a","u","t","o","f","o","c","u","s",">">>,
          <<"<","i","n","p","u","t"," ","a","r","i","a","-","l","a","b","e","l","=","\"","q","\""," ","a","r","i","a","-","h","i","d","d","e","n","=","\"","t","r","u","e","\""," ","a","u","t","o","f","o","c","u","s",">">> >>,
       \* a component file
       << <<"<","d","i","v"," ","o","n","C","l","i","c","k","=","{","g","o","}",">">>,
          <<"<","l","a","b","e","l",">","N","a","m","e","<","/","l","a","b","e","l",">">>,
          <<"<","i","n","p","u","t"," ","a","u","t","o","F","o","c","u","s"," ","/",">">>,
          <<"<","i","m","g"," ","s","r","c","=","{","x","}"," ","/",">">> >>,
       \* a stylesheet of one block of low contrast
       << <<"p"," ","{">>,
          <<" "," ","b","a","c","k","g","r","o","u","n","d","-","c","o","l","o","r",":"," ","#","8","8","8","8","8","8",";">>,
          <<" "," ","c","o","l","o","r",":"," ","#","7","7","7","7","7","7",";">>,
          <<"}">> >>,
       \* blocks with one colour, with colours that do not parse, with low contrast
       << <<"a"," ","{"," ","b","a","c","k","g","r","o","u","n","d","-","c","o","l","o","r",":"," ","#","0","0","0","0","0","0",";"," ","}">>,
          <<"b"," ","{"," ","c","o","l","o","r",":"," ","z","z","z",";"," ","b","a","c","k","g","r","o","u","n","d",":"," ","#","f","f","f",";"," ","}">>,
          <<"c"," ","{"," ","c","o","l","o","r",":"," ","#","0","0","0","0","0","0",";"," ","b","a","c","k","g","r","o","u","n","d","-","c","o","l","o","r",":"," ","#","0","a","0","a","0","a",";"," ","}">>,
          <<"d"," ","{"," ","c","o","l","o","r",":"," ","c","o","n","s","t","r","u","c","t","o","r",";"," ","b","a","c","k","g","r","o","u","n","d",":"," ","w","h","i","t","e",";"," ","}">> >>,
       \* black on white
       << <<"h","1"," ","{">>,
          <<" "," ","c","o","l","o","r",":"," ","#","0","0","0","0","0","0",";">>,
          <<" "," ","b","a","c","k","g","r","o","u","n","d","-","c","o","l","o","r",":"," ","#","f","f","f","f","f","f",";">>,
          <<"}">> >>,
       \* a block with a colour only, then a block of low contrast
       << <<"p"," ","{"," ","c","o","l","o","r",":"," ","r","e","d",";"," ","}">>,
          <<"q"," ","{"," ","b","a","c","k","g","r","o","u","n","d",":"," ","#","7","7","7","7","7","7",";"," ","c","o","l","o","r",":"," ","#","8","8","8","8","8","8",";"," ","}">> >>,
       \* a block inside an @media block
       << <<"@","m","e","d","i","a"," ","p","r","i","n","t"," ","{">>,
          <<" "," ","p"," ","{"," ","c","o","l","o","r",":"," ","#","7","7","7",";"," ","b","a","c","k","g","r","o","u","n","d",":"," ","#","8","8","8",";"," ","}">>,
          <<"}">> >>,
       \* a text of no audited type
       << <<"r","e","m","e","m","b","e","r",":"," ","a","u","t","o","f","o","c","u","s"," ","s","t","e","a","l","s"," ","f","o","c","u","s">>,
          <<"n","o","t","h","i","n","g"," ","e","l","s","e">> >> >>

(***************************************************************************)
(* State                                                                   *)
(***************************************************************************)
VARIABLES
    build,             \* "src": the TypeScript source; "out": the compiled build
    document,          \* the file: [uri, languageId, lines]
    activeTextEditor,  \* vscode.window.activeTextEditor: NoEditor or document
    issues,            \* the issues array of the latest runAudit call
    colorPairs,        \* the pairs auditCSS extracted in that call
    pending,           \* the issues of the scanner the progress task awaits
    pcTask,            \* where the progress task is
    pcAudit,           \* where runAudit is
    pcCommand,         \* where the a11yassist.runAudit command handler is
    microtasks,        \* the continuations queued, in order
    returned,          \* what runAudit returned: "issues" (the array) or "empty"
    results,           \* the handler's results: "none", "issues" or "empty"
    received,          \* the content of results when the handler resumed
    currentIssuesCount, \* results.length, read by the handler when it resumed
    diagnostics,       \* the diagnostic collection: uri -> diagnostics
    previous,          \* the latest completed audit of the document, or NoAudit
    call,              \* a method called outside an audit: its name and arguments
    result,            \* <<>> until it returns, then <<what it returned or threw>>
    isAnalyticsEnabled, \* AnalyticsManager.isAnalyticsEnabled
    events,            \* AnalyticsManager.events
    globalState,       \* context.globalState: the stored counters and events
    now,               \* the clock that stamps the events
    audits,            \* the issue counts of the audits since the last reset
    tracked            \* the events tracked since the last reset, in call order

auditVars ==
    <<build, document, activeTextEditor, issues, colorPairs, pending, pcTask,
      pcAudit, pcCommand, microtasks, returned, results, received,
      currentIssuesCount, diagnostics, previous>>
callVars == <<call, result>>
statsVars == <<isAnalyticsEnabled, events, globalState, now, audits, tracked>>
vars == <<auditVars, callVars, statsVars>>

NoEditor == [none |-> TRUE]
NoAudit == [none |-> TRUE]

Lines == Documents[document.lines]

\* the array the handler's results constant refers to
Results == IF results = "issues" THEN issues ELSE <<>>

InitAudit ==
    /\ build \in {"src", "out"}
    /\ document \in [uri : {"file:///work/page"}, languageId : HtmlLanguages \cup JsxLanguages \cup CssLanguages
                                     \cup {"plaintext"},
                     lines : 1..Len(Documents)]
    /\ activeTextEditor \in {NoEditor, document}
    /\ issues = <<>>
    /\ colorPairs = <<>>
    /\ pending = <<>>
    /\ pcTask = "idle"
    /\ pcAudit = "idle"
    /\ pcCommand = "idle"
    /\ microtasks = <<>>
    /\ returned = "empty"
    /\ results = "none"
    /\ received = <<>>
    /\ currentIssuesCount = 0
    /\ diagnostics = <<>>
    /\ previous = NoAudit

\* the store of a new installation
NoStatistics ==
    /\ events = <<>>
    /\ globalState = [totalIssuesFound |-> 0, totalIssuesFixed |-> 0,
                      lastAuditCount |-> 0, analyticsEvents |-> <<>>]
    /\ now = 1
    /\ audits = <<>>
    /\ tracked = <<>>

Init ==
    /\ InitAudit
    /\ call = [fn |-> "none"]
    /\ result = <<>>
    /\ isAnalyticsEnabled = TRUE
    /\ NoStatistics

(***************************************************************************)
(* runAudit and the command that calls it                                  *)
(***************************************************************************)
\* the first scanner the progress task reaches for a content type
FirstScanner(languageId) ==
    IF languageId \in HtmlLanguages THEN "auditHTML"
    ELSE IF languageId \in JsxLanguages THEN "auditJSX"
    ELSE IF languageId \in CssLanguages THEN "auditCSS"
    ELSE "auditCommonIssues"

Scan(scanner, lines) ==
    CASE scanner = "auditHTML" -> auditHTML(lines)
      [] scanner = "auditJSX" -> auditJSX(lines)
      [] scanner = "auditCSS" -> auditCSS(lines)
      [] scanner = "auditCommonIssues" -> auditCommonIssues(lines)

\* The handler calls runAudit, which runs to its return (src) or to its await
\* of withProgress (out); withProgress calls the progress task at once, and
\* the task runs to its first await.  issues0 is the array runAudit starts on.
runAuditCalled(issues0) ==
    /\ pcCommand = "idle"
    /\ microtasks = <<>>
    /\ pcCommand' = "runAudit"
    /\ results' = "none"
    /\ IF activeTextEditor = NoEditor
       THEN /\ returned' = "empty"
            /\ pcAudit' = "returned"
            /\ microtasks' = <<"command">>
            /\ UNCHANGED <<issues, colorPairs, pending, pcTask, diagnostics>>
       ELSE LET started(doc, lines, scanner) ==
                    /\ issues' = issues0
                    /\ pcTask' = scanner
                    /\ pending' = Scan(scanner, lines)
                    /\ colorPairs' = IF scanner = "auditCSS" THEN extractColorPairs(lines)
                                     ELSE colorPairs
                    /\ returned' = "issues"
                    /\ IF build = "src"
                       THEN /\ diagnostics' = updateDiagnostics(diagnostics, doc.uri, issues0)
                            /\ pcAudit' = "returned"
                            /\ microtasks' = <<"task", "command">>
                       ELSE /\ pcAudit' = "withProgress"
                            /\ microtasks' = <<"task">>
                            /\ UNCHANGED diagnostics
            IN started(activeTextEditor, Documents[activeTextEditor.lines],
                       FirstScanner(activeTextEditor.languageId))
    /\ UNCHANGED <<build, document, activeTextEditor, received, currentIssuesCount,
                   previous, callVars, statsVars>>

\* (mutation for C1: runAudit keeps pushing onto the array of the call before)
RunAuditCommandStale == runAuditCalled(issues)

\* (mutation for C25: with no active editor the document's diagnostics are
\* cleared)
RunAuditCommandClearing ==
    IF activeTextEditor = NoEditor
    THEN /\ pcCommand = "idle"
         /\ microtasks = <<>>
         /\ pcCommand' = "runAudit"
         /\ results' = "none"
         /\ returned' = "empty"
         /\ pcAudit' = "returned"
         /\ microtasks' = <<"command">>
         /\ diagnostics' = [u \in DOMAIN diagnostics |-> <<>>]
         /\ UNCHANGED <<build, document, activeTextEditor, issues, colorPairs,
                        pending, pcTask, received, currentIssuesCount, previous,
                        callVars, statsVars>>
    ELSE runAuditCalled(<<>>)

\* runAudit starts every call on a new, empty array
RunAuditCommand == runAuditCalled(<<>>)

\* the progress task resumes: it pushes the issues it awaited, then runs to
\* its next await or to its end.  merged is the array after the push.
taskResumed(merged) ==
    /\ microtasks # <<>> /\ Head(microtasks) = "task"
    /\ issues' = merged
    /\ \/ /\ pcTask \in {"auditHTML", "auditJSX", "auditCSS"}
          /\ pcTask' = "auditCommonIssues"
          /\ pending' = auditCommonIssues(Lines)
          /\ microtasks' = Append(Tail(microtasks), "task")
       \/ /\ pcTask = "auditCommonIssues"
          /\ pcTask' = "done"
          /\ pending' = <<>>
          /\ microtasks' = IF pcAudit = "withProgress"
                           THEN Append(Tail(microtasks), "runAudit")
                           ELSE Tail(microtasks)
    /\ UNCHANGED <<build, document, activeTextEditor, colorPairs, pcAudit, pcCommand,
                   returned, results, received, currentIssuesCount, diagnostics,
                   previous, callVars, statsVars>>

\* (mutation for C7: the awaited issues are put in front of the array)
TaskResumePrepend == taskResumed(pending \o issues)

\* issues.push(...awaited)
TaskResume == taskResumed(issues \o pending)

\* out build: runAudit resumes after withProgress, publishes and returns
AuditResume ==
    /\ microtasks # <<>> /\ Head(microtasks) = "runAudit"
    /\ diagnostics' = updateDiagnostics(diagnostics, document.uri, issues)
    /\ pcAudit' = "returned"
    /\ microtasks' = Append(Tail(microtasks), "command")
    /\ UNCHANGED <<build, document, activeTextEditor, issues, colorPairs, pending,
                   pcTask, pcCommand, returned, results, received,
                   currentIssuesCount, previous, callVars, statsVars>>

\* the handler resumes with runAudit's value and reads results.length
CommandResume ==
    /\ microtasks # <<>> /\ Head(microtasks) = "command"
    /\ pcCommand' = "results"
    /\ results' = returned
    /\ received' = (IF returned = "issues" THEN issues ELSE <<>>)
    /\ currentIssuesCount' = Len(IF returned = "issues" THEN issues ELSE <<>>)
    /\ microtasks' = Tail(microtasks)
    /\ UNCHANGED <<build, document, activeTextEditor, issues, colorPairs, pending,
                   pcTask, pcAudit, returned, diagnostics, previous, callVars, statsVars>>

\* the handler ends, after every queued continuation has run
CommandComplete ==
    /\ pcCommand = "results"
    /\ microtasks = <<>>
    /\ pcCommand' = "idle"
    /\ pcAudit' = "idle"
    /\ pcTask' = "idle"
    /\ previous' = IF results = "issues"
                   THEN [issues |-> issues, received |-> received,
                         count |-> currentIssuesCount]
                   ELSE previous
    /\ UNCHANGED <<build, document, activeTextEditor, issues, colorPairs, pending,
                   microtasks, returned, results, received, currentIssuesCount,
                   diagnostics, callVars, statsVars>>

\* the user closes the editor, or brings the document back
CloseEditor ==
    /\ microtasks = <<>>
    /\ activeTextEditor # NoEditor
    /\ activeTextEditor' = NoEditor
    /\ UNCHANGED <<build, document, issues, colorPairs, pending, pcTask, pcAudit,
                   pcCommand, microtasks, returned, results, received,
                   currentIssuesCount, diagnostics, previous, callVars, statsVars>>

OpenEditor ==
    /\ microtasks = <<>>
    /\ activeTextEditor = NoEditor
    /\ activeTextEditor' = document
    /\ UNCHANGED <<build, document, issues, colorPairs, pending, pcTask, pcAudit,
                   pcCommand, microtasks, returned, results, received,
                   currentIssuesCount, diagnostics, previous, callVars, statsVars>>

Next ==
    \/ RunAuditCommand
    \/ TaskResume
    \/ AuditResume
    \/ CommandResume
    \/ CommandComplete
    \/ CloseEditor
    \/ OpenEditor

Spec == Init /\ [][Next]_vars

(***************************************************************************)
(* The analyzer, the validator and the markup scanner called on their own  *)
(***************************************************************************)
ColorInputs ==
    { <<"#","F","F","F","F","F","F">>, <<"#","0","0","0","0","0","0">>, <<"#","0","0","0","0","0","1">>, <<"#","7","7","7","7","7","7">>, <<"#","8","8","8","8","8","8">>,
      <<"#","0","a","0","a","0","a">>, <<"#","a","b","c">>, <<"#","a","a","b","b","c","c">>, <<"w","h","i","t","e">>, <<"G","r","a","y">>,
      <<"r","g","b","(","2","5","5",","," ","0",","," ","0",")">>, <<"r","g","b","a","(","0",",","0",",","2","5","5",",","0",".","5",")">>, <<"r","g","b","(","3","0","0",","," ","3","0","0",","," ","3","0","0",")">>,
      <<"n","o","t","a","c","o","l","o","r">>, <<"#","1","g","1","g","1","g">>, <<"#","-","1","-","1","-","1">>, <<" ","#","f","f","f"," ">>, <<"c","o","n","s","t","r","u","c","t","o","r">>,
      <<"#","1","2","3","4","5">>, <<"r","g","b","(","1"," ",",","2",",","3",")">>, <<"#","9","5","9","5","9","5">>, <<"r","g","b","(","1","8",","," ","1","3","8",","," ","1","8",")">> }

\* the most attributes written on a line
MaxAttributes == 3

\* a document of two lines, the second of one element for each attribute given
MarkupLines(attributes) ==
    << <<"<","m","a","i","n",">">>,
       <<" "," ">> \o Flatten([k \in 1..Len(attributes) |->
                            <<"<","d","i","v"," ">> \o attributes[k].text \o <<">">>]) >>

\* the most lines of markup in a document
MaxLines == 3

\* the calls tried: the method and its arguments
Calls ==
    LET HexSample == {"0", "1", "9", "a", "c", "F", "g", "-"}
        HexInputs ==
            { <<"#", x, y, z>> : x \in HexSample, y \in HexSample, z \in HexSample }
            \cup { <<"#", x, x, y, y, z, z>> :
                     x \in {"1", "a", "F"}, y \in {"9", "c"}, z \in {"0", "g"} }
            \cup { <<"#">>, <<"#","f">>, <<"#","f","f">>, <<"#","f","f","f","f">>, <<"#","f","f","f","f","f">>, <<"#","f","f","f","f","f","f","f">>,
                   <<"#","#","f","f","f","f","f">>, <<"#","0","x","0","x","0","x">>, <<"#","+","1","+","2","+","3">>, <<"#"," ","1"," ","2"," ","3">>, <<"#","A","b","C","d","E","f">>,
                   <<" "," ","#","A","b","C">> }
        OriginalInputs ==
            { <<"#","F","F","F","F","F","F">>, <<"#","0","0","0","0","0","0">>, <<"#","7","7","7","7","7","7">>, <<"r","g","b","(","1","7","0",","," ","8","5",","," ","4","5",")">>, <<"r","e","d">>,
              <<"y","e","l","l","o","w">>, <<"#","2","a","6">>, <<"n","o","t","a","c","o","l","o","r">>, <<"c","o","n","s","t","r","u","c","t","o","r">>, <<"#","-","1","-","1","-","1">> }
        BackgroundInputs ==
            { <<"#","F","F","F","F","F","F">>, <<"#","0","0","0","0","0","0">>, <<"#","7","7","7","7","7","7">>, <<"#","0","a","0","a","0","a">>,
              <<"r","g","b","(","2","0","0",","," ","2","0","0",","," ","2","0","0",")">>, <<"b","l","u","e">>, <<"n","o","t","a","c","o","l","o","r">>, <<"c","o","n","s","t","r","u","c","t","o","r">>,
              <<"#","1","2","3","4","5">> }
        \* in tenths: the WCAG thresholds, 15, and 22, above the maximum of 21
        TargetRatios ==
            {WCAG_AA_LARGE, WCAG_AA_NORMAL, WCAG_AAA_NORMAL, WCAG_AAA_LARGE, 150, 220}
        \* the names of ARIA_PROPERTIES, and names that are not in it
        AttributeInputs ==
            { <<"a","r","i","a","-","a","c","t","i","v","e","d","e","s","c","e","n","d","a","n","t">>, <<"a","r","i","a","-","a","t","o","m","i","c">>, <<"a","r","i","a","-","a","u","t","o","c","o","m","p","l","e","t","e">>,
              <<"a","r","i","a","-","b","u","s","y">>, <<"a","r","i","a","-","c","h","e","c","k","e","d">>, <<"a","r","i","a","-","c","o","n","t","r","o","l","s">>, <<"a","r","i","a","-","c","u","r","r","e","n","t">>,
              <<"a","r","i","a","-","d","e","s","c","r","i","b","e","d","b","y">>, <<"a","r","i","a","-","d","e","t","a","i","l","s">>, <<"a","r","i","a","-","d","i","s","a","b","l","e","d">>,
              <<"a","r","i","a","-","e","x","p","a","n","d","e","d">>, <<"a","r","i","a","-","h","a","s","p","o","p","u","p">>, <<"a","r","i","a","-","h","i","d","d","e","n">>, <<"a","r","i","a","-","i","n","v","a","l","i","d">>,
              <<"a","r","i","a","-","l","a","b","e","l">>, <<"a","r","i","a","-","l","a","b","e","l","l","e","d","b","y">>, <<"a","r","i","a","-","l","e","v","e","l">>, <<"a","r","i","a","-","l","i","v","e">>,
              <<"a","r","i","a","-","m","o","d","a","l">>, <<"a","r","i","a","-","m","u","l","t","i","l","i","n","e">>, <<"a","r","i","a","-","m","u","l","t","i","s","e","l","e","c","t","a","b","l","e">>,
              <<"a","r","i","a","-","o","r","i","e","n","t","a","t","i","o","n">>, <<"a","r","i","a","-","p","l","a","c","e","h","o","l","d","e","r">>, <<"a","r","i","a","-","p","r","e","s","s","e","d">>,
              <<"a","r","i","a","-","r","e","a","d","o","n","l","y">>, <<"a","r","i","a","-","r","e","q","u","i","r","e","d">>, <<"a","r","i","a","-","s","e","l","e","c","t","e","d">>,
              <<"a","r","i","a","-","v","a","l","u","e","m","a","x">>, <<"a","r","i","a","-","v","a","l","u","e","m","i","n">>, <<"a","r","i","a","-","v","a","l","u","e","n","o","w">>,
              <<"a","r","i","a","-","v","a","l","u","e","t","e","x","t">>,
              <<"a","r","i","a","-","f","o","o">>, <<"a","r","i","a","-">>, <<"a","r","i","a","-","L","a","b","e","l">>, <<"A","R","I","A","-","L","A","B","E","L">>, <<"d","a","t","a","-","l","a","b","e","l">>,
              <<"r","o","l","e">>, <<"l","a","b","e","l">> }
        ValueInputs ==
            { <<"t","r","u","e">>, <<"f","a","l","s","e">>, <<"m","i","x","e","d">>, <<"T","R","U","E">>, <<"M","i","x","e","d">>, <<"u","n","d","e","f","i","n","e","d">>, <<>>,
              <<" ">>, <<" ","t","r","u","e">>, <<"p","o","l","i","t","e">>, <<"P","o","l","i","t","e">>, <<"p","a","g","e">>, <<"m","e","n","u">>,
              <<"v","e","r","t","i","c","a","l">>, <<"5">>, <<"-","3">>, <<"1",".","5">>, <<"a","b","c">>, <<"i","d","1"," ","i","d","-","2">>, <<"1","s","t">>,
              <<"b","u","t","t","o","n">>, <<"B","u","t","t","o","n">>, <<"m","a","i","n">>, <<"b","a","n","a","n","a">> }
        \* attributes written in a tag: the text, and the name and value it
        \* carries
        AttributeTexts ==
            { [text |-> <<"a","r","i","a","-","h","i","d","d","e","n","=","\"","t","r","u","e","\"">>, name |-> <<"a","r","i","a","-","h","i","d","d","e","n">>, value |-> <<"t","r","u","e">>],
              [text |-> <<"a","r","i","a","-","h","i","d","d","e","n","=","\"","m","a","y","b","e","\"">>, name |-> <<"a","r","i","a","-","h","i","d","d","e","n">>, value |-> <<"m","a","y","b","e">>],
              [text |-> <<"a","r","i","a","-","f","o","o","=","\"","x","\"">>, name |-> <<"a","r","i","a","-","f","o","o">>, value |-> <<"x">>],
              [text |-> <<"a","r","i","a","-","l","i","v","e"," ","="," ","'","p","o","l","i","t","e","'">>, name |-> <<"a","r","i","a","-","l","i","v","e">>, value |-> <<"p","o","l","i","t","e">>],
              [text |-> <<"r","o","l","e","=","\"","b","u","t","t","o","n","\"">>, name |-> <<"r","o","l","e">>, value |-> <<"b","u","t","t","o","n">>],
              [text |-> <<"r","o","l","e","=","\"","b","a","n","a","n","a","\"">>, name |-> <<"r","o","l","e">>, value |-> <<"b","a","n","a","n","a">>] }
        \* lines of markup: html and anchor elements, complete or continued on
        \* the next line
        MarkupTexts ==
            { <<"<","h","t","m","l",">">>, <<"<","h","t","m","l"," ","l","a","n","g","=","\"","e","n","\"",">">>, <<" "," ","<","h","t","m","l">>, <<" "," ","l","a","n","g"," ","="," ","'","f","r","'",">">>,
              <<" "," ","d","i","r","=","\"","l","t","r","\"",">">>, <<"<","b","o","d","y",">">>, <<"<","p"," ","l","a","n","g","=","\"","f","r","\"",">","t","e","x","t","<","/","p",">">>,
              <<"<","a",">","<","/","a",">">>, <<" "," ","<","a"," ","h","r","e","f","=","\"","#","\"",">"," "," ","<","/","a",">">>, <<"<","a"," ","h","r","e","f","=","\"","#","\"",">","t","e","x","t","<","/","a",">">>,
              <<"<","a","b","b","r",">","<","/","a",">">>, <<"<","b","u","t","t","o","n"," ","c","l","a","s","s","=","\"","b","\"",">"," ","<","/","b","u","t","t","o","n",">","<","a","\t","i","d","=","\"","t","o","p","\"",">","<","/","a",">">> }
    IN [fn : {"analyzeContrast"}, foreground : ColorInputs, background : ColorInputs]
       \cup [fn : {"parseColor"}, color : HexInputs \cup ColorInputs]
       \cup [fn : {"suggestAccessibleColor"}, originalColor : OriginalInputs,
             backgroundColor : BackgroundInputs, targetRatio : TargetRatios]
       \cup [fn : {"validateAttribute"}, attributeName : AttributeInputs,
             value : ValueInputs]
       \cup [fn : {"validateRole"}, role : ValueInputs]
       \cup [fn : {"auditHTML"},
             attributes : UNION {[1..n -> AttributeTexts] : n \in 1..MaxAttributes}]
       \cup [fn : {"auditHTML"},
             lines : UNION {[1..n -> MarkupTexts] : n \in 1..MaxLines}]

\* no audit: the methods are called on their own
InitCalls ==
    /\ InitAudit
    /\ document.languageId = "css" /\ document.lines = 1 /\ build = "src"
    /\ activeTextEditor = NoEditor
    /\ call \in Calls
    /\ result = <<>>
    /\ isAnalyticsEnabled = TRUE
    /\ NoStatistics

AnalyzeContrast ==
    /\ call.fn = "analyzeContrast" /\ result = <<>>
    /\ result' = <<analyzeContrast(call.foreground, call.background)>>
    /\ UNCHANGED <<call, auditVars, statsVars>>

ParseColor ==
    /\ call.fn = "parseColor" /\ result = <<>>
    /\ result' = <<parseColor(call.color)>>
    /\ UNCHANGED <<call, auditVars, statsVars>>

SuggestAccessibleColor ==
    /\ call.fn = "suggestAccessibleColor" /\ result = <<>>
    /\ result' = <<suggestAccessibleColor(call.originalColor, call.backgroundColor,
                                          call.targetRatio)>>
    /\ UNCHANGED <<call, auditVars, statsVars>>

ValidateAttribute ==
    /\ call.fn = "validateAttribute" /\ result = <<>>
    /\ result' = <<validateAttribute(call.attributeName, call.value)>>
    /\ UNCHANGED <<call, auditVars, statsVars>>

ValidateRole ==
    /\ call.fn = "validateRole" /\ result = <<>>
    /\ result' = <<validateRole(call.role)>>
    /\ UNCHANGED <<call, auditVars, statsVars>>

AuditMarkup ==
    /\ call.fn = "auditHTML" /\ result = <<>>
    /\ result' = <<auditHTML(IF "lines" \in DOMAIN call THEN call.lines
                              ELSE MarkupLines(call.attributes))>>
    /\ UNCHANGED <<call, auditVars, statsVars>>

\* the method is called again
NextCall ==
    /\ result # <<>>
    /\ result' = <<>>
    /\ UNCHANGED <<call, auditVars, statsVars>>

NextCalls ==
    \/ AnalyzeContrast
    \/ ParseColor
    \/ SuggestAccessibleColor
    \/ ValidateAttribute
    \/ ValidateRole
    \/ AuditMarkup
    \/ NextCall

SpecCalls == InitCalls /\ [][NextCalls]_vars

(***************************************************************************)
(* AnalyticsManager and the statistics kept by the audit command           *)
(***************************************************************************)
\* events.length > 1000, events.slice(-1000)
MaxStoredEvents == 1000

\* the most audits between two resets, the most issues an audit returns and
\* the most events tracked after activation
MaxAudits == 4
MaxIssues == 3
MaxTracked == 6

\* The manager's methods take and give m = [events, globalState, now,
\* tracked]: the fields they read and write, the clock, and the history of
\* the events tracked.

\* saveAnalyticsData: the events are stored
saveAnalyticsData(m) == [m EXCEPT !.globalState.analyticsEvents = m.events]

\* (mutation for C30: the first MaxStoredEvents events are kept)
trackEventOldest(m, eventName) ==
    IF ~isAnalyticsEnabled THEN m
    ELSE LET pushed(all) ==
                 saveAnalyticsData(
                     [m EXCEPT !.events = SubSeq(all, 1, Min(Len(all), MaxStoredEvents)),
                               !.tracked = Append(@, all[Len(all)]),
                               !.now = @ + 1])
         IN pushed(Append(m.events, [eventName |-> eventName, timestamp |-> m.now]))

\* trackEvent: nothing when analytics is disabled; else the event is pushed,
\* the last MaxStoredEvents events are kept (slice(-1000)) and stored
trackEvent(m, eventName) ==
    IF ~isAnalyticsEnabled THEN m
    ELSE LET pushed(all) ==
                 saveAnalyticsData(
                     [m EXCEPT !.events = IF Len(all) > MaxStoredEvents
                                          THEN SubSeq(all, Len(all) - MaxStoredEvents + 1,
                                                      Len(all))
                                          ELSE all,
                               !.tracked = Append(@, all[Len(all)]),
                               !.now = @ + 1])
         IN pushed(Append(m.events, [eventName |-> eventName, timestamp |-> m.now]))

setTotalIssuesFound(m, count) == [m EXCEPT !.globalState.totalIssuesFound = count]

setLastAuditCount(m, count) == [m EXCEPT !.globalState.lastAuditCount = count]

incrementIssuesFixed(m, count) ==
    trackEvent([m EXCEPT !.globalState.totalIssuesFixed = @ + count], "issue_fixed")

\* Math.max(0, current - count)
decrementIssuesFixed(m, count) ==
    [m EXCEPT !.globalState.totalIssuesFixed = IF @ - count > 0 THEN @ - count ELSE 0]

resetStatistics(m) ==
    saveAnalyticsData([m EXCEPT !.globalState.totalIssuesFound = 0,
                                !.globalState.totalIssuesFixed = 0,
                                !.events = <<>>])

\* (mutation for C29: every audit sets the baseline to its own count)
runAuditCommandLatest(m, issuesCount) ==
    setLastAuditCount(setTotalIssuesFound(trackEvent(m, "audit_run"),
                                          issuesCount),
                      issuesCount)

\* the a11yassist.runAudit handler around its runAudit call, whose result has
\* issuesCount issues (currentIssuesCount): the event, then the counters
runAuditCommand(m, issuesCount) ==
    LET subsequent(s, baselineIssuesCount, previousAuditCount) ==
            IF previousAuditCount - issuesCount > 0
            THEN incrementIssuesFixed(s, previousAuditCount - issuesCount)
            ELSE IF previousAuditCount - issuesCount < 0
            THEN IF issuesCount > baselineIssuesCount
                 THEN setTotalIssuesFound(
                          decrementIssuesFixed(s, issuesCount - previousAuditCount),
                          issuesCount)
                 ELSE decrementIssuesFixed(s, issuesCount - previousAuditCount)
            ELSE s
        counted(s, baselineIssuesCount, lastAuditCount) ==
            IF baselineIssuesCount = 0
            THEN setLastAuditCount(setTotalIssuesFound(s, issuesCount),
                                   issuesCount)
            ELSE setLastAuditCount(
                     subsequent(s, baselineIssuesCount,
                                \* lastAuditCount || baselineIssuesCount
                                IF lastAuditCount # 0 THEN lastAuditCount
                                ELSE baselineIssuesCount),
                     issuesCount)
        audited(s) ==
            counted(s, s.globalState.totalIssuesFound, s.globalState.lastAuditCount)
    IN audited(trackEvent(m, "audit_run"))

\* the manager is constructed, on an empty store or on one with events
InitStats ==
    /\ InitAudit
    /\ document.languageId = "css" /\ document.lines = 1 /\ build = "src"
    /\ activeTextEditor = NoEditor
    /\ call = [fn |-> "none"]
    /\ result = <<>>
    /\ isAnalyticsEnabled \in BOOLEAN
    \* the events an earlier session has left in the store: none, or two
    \* fewer than the list keeps
    /\ events \in {[k \in 1..n |-> [eventName |-> "panel_opened",
                                     timestamp |-> k - n]] :
                     n \in {0, MaxStoredEvents - 2}}
    /\ globalState = [totalIssuesFound |-> 0, totalIssuesFixed |-> 0,
                      lastAuditCount |-> 0, analyticsEvents |-> events]
    /\ now = 1
    /\ audits = <<>>
    /\ tracked = events

\* the audit command, for an audit that returns issuesCount issues
AuditStatistics ==
    \E issuesCount \in 0..MaxIssues :
        /\ Len(audits) < MaxAudits
        /\ now + 1 <= MaxTracked
        /\ LET done(m) ==
                   /\ events' = m.events
                   /\ globalState' = m.globalState
                   /\ now' = m.now
                   /\ tracked' = m.tracked
           IN done(runAuditCommand([events |-> events, globalState |-> globalState,
                                    now |-> now, tracked |-> tracked],
                                   issuesCount))
        /\ audits' = Append(audits, issuesCount)
        /\ UNCHANGED <<isAnalyticsEnabled, auditVars, callVars>>

\* the a11yassist.clearStatistics command, confirmed
ClearStatistics ==
    /\ LET done(m) == events' = m.events /\ globalState' = m.globalState
       IN done(resetStatistics([events |-> events, globalState |-> globalState,
                                now |-> now, tracked |-> tracked]))
    /\ audits' = <<>>
    /\ tracked' = <<>>
    /\ UNCHANGED <<isAnalyticsEnabled, now, auditVars, callVars>>

\* another command tracks its event
TrackEvent ==
    \E eventName \in {"panel_opened", "context_announced"} :
        /\ now <= MaxTracked
        /\ LET done(m) ==
                   /\ events' = m.events
                   /\ globalState' = m.globalState
                   /\ now' = m.now
                   /\ tracked' = m.tracked
           IN done(trackEvent([events |-> events, globalState |-> globalState,
                               now |-> now, tracked |-> tracked], eventName))
        /\ UNCHANGED <<isAnalyticsEnabled, audits, auditVars, callVars>>

NextStats ==
    \/ AuditStatistics
    \/ ClearStatistics
    \/ TrackEvent

SpecStats == InitStats /\ [][NextStats]_vars

(***************************************************************************)
(* The stylesheet rule block as the specification reads it: declarations   *)
(* separated by ; { } and line ends, each a property name, a colon and a   *)
(* value                                                                   *)
(***************************************************************************)
DeclarationEnds == {";", "{", "}", "\n"}

\* the declaration of code that starts at position a (1-based)
DeclarationAt(code, a) ==
    LET stops == {i \in a..Len(code) + 1 : i = Len(code) + 1 \/ code[i] \in DeclarationEnds}
        end == CHOOSE i \in stops : \A j \in stops : i <= j
        piece == SubSeq(code, a, end - 1)
        colon == indexOf(piece, <<":">>)
    IN IF colon < 0 THEN [name |-> "", value |-> <<>>]
       ELSE [name |-> Str(toLowerCase(trim(SubSeq(piece, 1, colon)))),
             value |-> trim(SubSeq(piece, colon + 2, Len(piece)))]

\* the value of the last declaration of code whose property is one of names
DeclaredValue(code, names) ==
    LET starts == {a \in 1..Len(code) :
                     /\ a = 1 \/ code[a - 1] \in DeclarationEnds
                     /\ DeclarationAt(code, a).name \in names}
    IN IF starts = {} THEN Absent
       ELSE Present(DeclarationAt(code, CHOOSE a \in starts : \A b \in starts : b <= a).value)

(***************************************************************************)
(* Properties of the audit                                                 *)
(***************************************************************************)
\* what the type-specific scanner of the document's content type finds
TypeSpecificIssues ==
    IF FirstScanner(document.languageId) = "auditCommonIssues" THEN <<>>
    ELSE Scan(FirstScanner(document.languageId), Lines)

\* C1: two audits of the same unchanged document (same text, same content
\* type) yield the same issue list, kinds, lines, columns, count and order
\* alike, and the handler receives the same list each time
C1_SameDocumentSameIssues ==
    /\ (pcTask = "done" /\ previous # NoAudit) => issues = previous.issues
    /\ (pcCommand = "results" /\ results = "issues" /\ previous # NoAudit) =>
          /\ received = previous.received
          /\ currentIssuesCount = previous.count

\* a second audit of the document has completed and found several issues
C1_SecondAuditDone ==
    /\ pcTask = "done"
    /\ previous # NoAudit
    /\ Len(previous.issues) >= 2
    /\ issues = previous.issues

\* C2: when runAudit has published the diagnostics and resolved, every
\* applicable scanner has run; the diagnostics are those of the complete
\* list; and the list the handler received does not grow afterwards
C2_ListCompleteWhenPublished ==
    /\ (pcAudit = "returned" /\ returned = "issues") =>
          /\ pcTask = "done"
          /\ diagnostics[document.uri] =
                [k \in 1..Len(TypeSpecificIssues \o auditCommonIssues(Lines)) |->
                    Diagnostic((TypeSpecificIssues \o auditCommonIssues(Lines))[k])]
    /\ (pcCommand = "results" /\ results = "issues") => received = Results

\* C3 as stated: two issues of the same kind carry the same severity and the
\* same WCAG level
C3_KindFixesSeverity ==
    \A i, j \in 1..Len(issues) :
        issues[i].type = issues[j].type =>
            /\ issues[i].severity = issues[j].severity
            /\ issues[i].wcagLevel = issues[j].wcagLevel

\* C3 (amended): the detection rule, that is the kind and the message text,
\* fixes the severity and the WCAG level; the kind alone fixes the WCAG level,
\* and the severity except for keyboard-trap (serious from the onClick rule,
\* moderate from the autofocus rule) and missing-form-label (serious from the
\* markup rule, moderate from the component rule)
C3_RuleFixesSeverity ==
    \A i \in 1..Len(issues) :
        LET issue == issues[i]
            text == issue.message[1]
        IN <<issue.severity, issue.wcagLevel>> =
             CASE issue.type = "missing-alt-text" -> <<"critical", "A">>
               [] issue.type = "empty-button" -> <<"critical", "A">>
               [] issue.type = "empty-link" -> <<"serious", "A">>
               [] issue.type = "improper-tab-index" -> <<"moderate", "A">>
               [] issue.type = "invalid-aria-attribute" -> <<"serious", "A">>
               [] issue.type = "missing-role" -> <<"serious", "A">>
               [] issue.type = "missing-lang-attribute" -> <<"serious", "A">>
               [] issue.type = "low-color-contrast" -> <<"serious", "AA">>
               [] issue.type = "keyboard-trap" ->
                    IF text = "onClick without keyboard handler"
                    THEN <<"serious", "A">> ELSE <<"moderate", "A">>
               [] issue.type = "missing-form-label" ->
                    IF text = "Form input missing label"
                    THEN <<"serious", "A">> ELSE <<"moderate", "A">>

\* an audit has found two keyboard-trap issues of different severities
C3_TwoSeverities ==
    /\ pcTask = "done"
    /\ \E i, j \in 1..Len(issues) :
          /\ issues[i].type = "keyboard-trap" /\ issues[j].type = "keyboard-trap"
          /\ issues[i].severity = "serious" /\ issues[j].severity = "moderate"

\* C4: every low-color-contrast issue is of a rule block that declares both a
\* color and a background or background-color
C4_BothDeclared ==
    \A i \in 1..Len(issues) :
        issues[i].type = "low-color-contrast" =>
            /\ DeclaredValue(issues[i].code, {"color"}) # Absent
            /\ DeclaredValue(issues[i].code, {"background", "background-color"}) # Absent

\* C5: the foreground of every extracted pair is the value of the block's last
\* color declaration and its background the value of the block's last
\* background or background-color declaration
C5_LastDeclarations ==
    \A k \in 1..Len(colorPairs) :
        /\ colorPairs[k].foreground = DeclaredValue(colorPairs[k].code, {"color"})
        /\ colorPairs[k].background =
              DeclaredValue(colorPairs[k].code, {"background", "background-color"})

\* C6: a pair one of whose colours does not parse to a colour (an RGB triple)
\* yields no issue, and the stylesheet scanner's issues are those of the other
\* pairs, as if the pair were not there
C6_UnparsablePairSkipped ==
    LET unparsable(pair) ==
            /\ Truthy(pair.foreground) /\ Truthy(pair.background)
            /\ \/ ~IsRGB(parseColor(pair.foreground[1]))
               \/ ~IsRGB(parseColor(pair.background[1]))
        parsable(pair) == ~unparsable(pair)
        others == auditCSSPairs(SelectSeq(colorPairs, parsable))
    IN /\ pcTask = "auditCSS" => pending = others
       /\ (pcTask = "auditCommonIssues" /\ document.languageId \in CssLanguages) =>
             issues = others
       /\ pcTask \in {"auditCSS", "auditCommonIssues", "done"} =>
             \A k \in 1..Len(colorPairs) :
                 unparsable(colorPairs[k]) => auditCSSPair(colorPairs[k]) = <<>>

\* C7: whatever the content type, the cross-type scanner has run by the time
\* the audit's continuations have all run, and the list is the type-specific
\* scanner's issues followed by the cross-type scanner's
C7_CrossTypeScannerRunsLast ==
    /\ pcTask = "auditCommonIssues" =>
          issues = TypeSpecificIssues /\ pending = auditCommonIssues(Lines)
    /\ pcTask = "done" => issues = TypeSpecificIssues \o auditCommonIssues(Lines)
    /\ (pcAudit = "returned" /\ returned = "issues" /\ microtasks = <<>>) =>
          pcTask = "done"

\* an audit is complete in which both scanners found issues
C7_BothScannersFound ==
    /\ pcTask = "done"
    /\ TypeSpecificIssues # <<>>
    /\ auditCommonIssues(Lines) # <<>>
    /\ issues = TypeSpecificIssues \o auditCommonIssues(Lines)

(***************************************************************************)
(* Properties of analyzeContrast                                           *)
(***************************************************************************)
\* C8: for colour texts that analyzeContrast accepts, swapping the two gives
\* the same contrastRatio and the same four pass/fail results
C8_Symmetric ==
    (call.fn = "analyzeContrast" /\ result # <<>> /\ ~Threw(result[1])) =>
        LET swapped == analyzeContrast(call.background, call.foreground)
        IN /\ ~Threw(swapped)
           /\ swapped.contrastRatio = result[1].contrastRatio
           /\ swapped.passesAA = result[1].passesAA
           /\ swapped.passesAAA = result[1].passesAAA
           /\ swapped.passesAALarge = result[1].passesAALarge
           /\ swapped.passesAAALarge = result[1].passesAAALarge

\* analyzeContrast has compared a darker foreground with a lighter background
C8_DarkOnLight ==
    /\ call.fn = "analyzeContrast" /\ result # <<>> /\ ~Threw(result[1])
    /\ IsRGB(parseColor(call.foreground)) /\ IsRGB(parseColor(call.background))
    /\ getRelativeLuminance(parseColor(call.foreground))[1]
         < getRelativeLuminance(parseColor(call.background))[1]
    /\ result[1].contrastRatio[1] > 100

\* C9: the contrastRatio of an accepted pair is at least 1.0, and 1.0 only
\* when the two relative luminances are the same
C9_AtLeastOne ==
    (call.fn = "analyzeContrast" /\ result # <<>> /\ ~Threw(result[1])) =>
        /\ ~isNaN(result[1].contrastRatio)
        /\ result[1].contrastRatio[1] >= 100
        /\ result[1].contrastRatio[1] = 100 =>
              getRelativeLuminance(parseColor(call.foreground))
                = getRelativeLuminance(parseColor(call.background))

\* C10: the colours of an accepted pair have their channels in 0..255, their
\* relative luminances in [0, 1] and their contrast ratio in [1, 21]
C10_InRange ==
    (call.fn = "analyzeContrast" /\ result # <<>> /\ ~Threw(result[1])) =>
        /\ \A rgb \in {parseColor(call.foreground), parseColor(call.background)} :
              /\ IsRGB(rgb)
              /\ rgb.r \in 0..255 /\ rgb.g \in 0..255 /\ rgb.b \in 0..255
              /\ getRelativeLuminance(rgb)[1] \in 0..100000000
        /\ ~isNaN(result[1].contrastRatio)
        /\ result[1].contrastRatio[1] \in 100..2100

\* C11 (as stated): the four results agree with the reported, rounded
\* contrastRatio: passesAA exactly when it is >= 4.5, passesAAA when >= 7.0,
\* passesAALarge when >= 3.0, passesAAALarge when >= 4.5
C11_FlagsAgreeWithReported ==
    (call.fn = "analyzeContrast" /\ result # <<>> /\ ~Threw(result[1])) =>
        LET reported == result[1].contrastRatio
            atLeast(tenths) == ~isNaN(reported) /\ reported[1] >= 10 * tenths
        IN /\ result[1].passesAA = atLeast(WCAG_AA_NORMAL)
           /\ result[1].passesAAA = atLeast(WCAG_AAA_NORMAL)
           /\ result[1].passesAALarge = atLeast(WCAG_AA_LARGE)
           /\ result[1].passesAAALarge = atLeast(WCAG_AAA_LARGE)

\* C11 (amended): the four results agree with the ratio before rounding; they
\* agree with the reported ratio whenever that differs from the threshold, and
\* a reported ratio equal to a threshold may go with either result
C11_FlagsFollowUnroundedRatio ==
    (call.fn = "analyzeContrast" /\ result # <<>> /\ ~Threw(result[1])) =>
        LET ratio == calculateContrastRatio(parseColor(call.foreground),
                                            parseColor(call.background))
            reported == result[1].contrastRatio
            agrees(flag, tenths) ==
                /\ flag = RatioAtLeast(ratio, tenths)
                /\ ~isNaN(reported) /\ reported[1] > 10 * tenths => flag
                /\ ~isNaN(reported) /\ reported[1] < 10 * tenths => ~flag
                /\ isNaN(reported) => ~flag
        IN /\ reported = RoundHundredths(ratio)
           /\ agrees(result[1].passesAA, WCAG_AA_NORMAL)
           /\ agrees(result[1].passesAAA, WCAG_AAA_NORMAL)
           /\ agrees(result[1].passesAALarge, WCAG_AA_LARGE)
           /\ agrees(result[1].passesAAALarge, WCAG_AAA_LARGE)

\* a ratio just under 3.0 is reported as 3 and does not pass AA for large text
C11_RoundedUpToThreshold ==
    /\ call.fn = "analyzeContrast" /\ result # <<>> /\ ~Threw(result[1])
    /\ result[1].contrastRatio = <<10 * WCAG_AA_LARGE>>
    /\ ~result[1].passesAALarge

\* C12: analyzeContrast fails with the parse error exactly when one of its two
\* arguments does not parse to a colour (an RGB triple); when both do, the
\* result carries the two texts as they were given
C12_FailsIffUnparsable ==
    call.fn = "analyzeContrast" /\ result # <<>> =>
        /\ Threw(result[1]) <=>
              ~(/\ IsRGB(parseColor(call.foreground))
                /\ IsRGB(parseColor(call.background)))
        /\ Threw(result[1]) => result[1] = ParseError
        /\ ~Threw(result[1]) =>
              /\ result[1].foreground = call.foreground
              /\ result[1].background = call.background

(***************************************************************************)
(* Properties of parseColor                                                *)
(***************************************************************************)
\* C13: a text beginning with # parses to null whenever, after the # is
\* stripped and a 3-character form is expanded, it is not 6 characters long or
\* has a character outside 0-9, a-f, A-F
C13_InvalidHexIsNull ==
    call.fn = "parseColor" /\ result # <<>> =>
        LET text == trim(call.color)
            stripped == removeFirst(text, <<"#">>)
            hex == IF Len(stripped) = 3
                   THEN <<stripped[1], stripped[1], stripped[2], stripped[2],
                          stripped[3], stripped[3]>>
                   ELSE stripped
            HexChars == {HexSeq[i] : i \in 1..Len(HexSeq)}
                          \cup {ToUpperChar(HexSeq[i]) : i \in 1..Len(HexSeq)}
        IN (/\ startsWith(text, <<"#">>)
            /\ \/ Len(hex) # 6
               \/ \E i \in 1..Len(hex) : hex[i] \notin HexChars)
           => result[1] = Null

\* C14: a text #xyz of three hex digits parses to the same RGB triple as the
\* text #xxyyzz, the triple of 17 times the value of each digit
C14_HexExpansion ==
    LET HexChars == {HexSeq[i] : i \in 1..Len(HexSeq)}
                      \cup {ToUpperChar(HexSeq[i]) : i \in 1..Len(HexSeq)}
        digit(c) == CharIndex(HexSeq, ToLowerChar(c))
    IN (/\ call.fn = "parseColor" /\ result # <<>>
        /\ Len(call.color) = 4 /\ call.color[1] = "#"
        /\ \A i \in 2..4 : call.color[i] \in HexChars)
       => /\ result[1] = parseColor(<<"#", call.color[2], call.color[2], call.color[3],
                                      call.color[3], call.color[4], call.color[4]>>)
          /\ result[1] = RGB(17 * digit(call.color[2]), 17 * digit(call.color[3]),
                          17 * digit(call.color[4]))

\* parseColor was given #aF9: three different hex digits, in both cases
C14_ThreeDigitsParsed ==
    /\ call.fn = "parseColor" /\ result # <<>>
    /\ call.color = <<"#", "a", "F", "9">>
    /\ result[1] = RGB(170, 255, 153)

(***************************************************************************)
(* Properties of suggestAccessibleColor                                    *)
(***************************************************************************)
\* C15: for a background that parses, the suggestion is the original colour
\* scaled by the smallest of the factors 0, 5, ..., 100 whose contrast ratio
\* against the background meets targetRatio; when no factor meets it, the
\* suggestion is #000000 for a background luminance above 0.5 and #FFFFFF
\* otherwise
C15_FirstFactorOrFallback ==
    (/\ call.fn = "suggestAccessibleColor" /\ result # <<>>
     /\ parseColor(call.backgroundColor) # Null) =>
        LET bgRgb == parseColor(call.backgroundColor)
            bgLuminance == getRelativeLuminance(bgRgb)
            meets(lightness) ==
                LET testRgb == parseColor(adjustLightness(call.originalColor, lightness))
                IN /\ testRgb # Null
                   /\ RatioAtLeast(calculateContrastRatio(testRgb, bgRgb), call.targetRatio)
            found == {k \in 0..20 : meets(5 * k)}
        IN IF found = {}
           THEN result[1] = (IF ~isNaN(bgLuminance) /\ bgLuminance[1] > 50000000
                             THEN <<"#","0","0","0","0","0","0">> ELSE <<"#","F","F","F","F","F","F">>)
           ELSE \E k \in found :
                   /\ \A j \in found : k <= j
                   /\ result[1] = adjustLightness(call.originalColor, 5 * k)

\* white on black with the default target: the factors up to 45 fail, 50 is
\* the first to meet 4.5
C15_MidScaleSuggested ==
    /\ call.fn = "suggestAccessibleColor" /\ result # <<>> /\ result[1] # Null
    /\ call.originalColor = <<"#","F","F","F","F","F","F">> /\ call.backgroundColor = <<"#","0","0","0","0","0","0">>
    /\ call.targetRatio = WCAG_AA_NORMAL
    /\ result[1] = <<"r","g","b","(","1","2","8",","," ","1","2","8",","," ","1","2","8",")">>

C17_OutsideAllowedValuesInvalid ==
    /\ (call.fn = "validateAttribute" /\ result # <<>>) =>
          LET known == {p \in ARIA_PROPERTIES : p.name = Str(call.attributeName)}
          IN /\ known = {} => ~result[1].isValid
             /\ \A p \in known :
                   (/\ p.type \in {"boolean", "tristate", "token"}
                    /\ ~includes(result[1].allowedValues[1], Str(call.value)))
                   => ~result[1].isValid
    /\ (call.fn = "validateRole" /\ result # <<>>) =>
          (~includes(VALID_ROLES, Str(call.role)) => ~result[1].isValid)

\* C17 (amended): as above, with the value compared in lower case: for a
\* boolean, tristate or token attribute isValid is true exactly when the
\* lower-cased value is a member of the allowedValues of the result; a role is
\* compared as written
C17_LowerCasedValueDecides ==
    /\ (call.fn = "validateAttribute" /\ result # <<>>) =>
          LET known == {p \in ARIA_PROPERTIES : p.name = Str(call.attributeName)}
          IN /\ known = {} => ~result[1].isValid
             /\ \A p \in known :
                   p.type \in {"boolean", "tristate", "token"} =>
                     /\ result[1].allowedValues # Absent
                     /\ result[1].isValid <=>
                           includes(result[1].allowedValues[1],
                                    Str(toLowerCase(call.value)))
    /\ (call.fn = "validateRole" /\ result # <<>>) =>
          (result[1].isValid <=> includes(VALID_ROLES, Str(call.role)))

\* aria-hidden="TRUE" was validated: TRUE is not among true, false, and the
\* result is valid
C17_UpperCaseAccepted ==
    /\ call.fn = "validateAttribute" /\ result # <<>>
    /\ call.attributeName = <<"a","r","i","a","-","h","i","d","d","e","n">> /\ call.value = <<"T","R","U","E">>
    /\ result[1].allowedValues = Present(<<"true", "false">>)
    /\ result[1].isValid

\* C18: in every result of validateRole and validateAttribute a
\* recommendation is present exactly when isValid is false, and the result
\* carries the attribute name (role for validateRole) and the value given
C18_RecommendationIffInvalid ==
    (call.fn \in {"validateAttribute", "validateRole"} /\ result # <<>>) =>
        /\ result[1].isValid \in BOOLEAN
        /\ result[1].recommendation = Undefined <=> result[1].isValid
        /\ call.fn = "validateRole" =>
              result[1].value = call.role /\ result[1].attribute = <<"r","o","l","e">>
        /\ call.fn = "validateAttribute" =>
              /\ result[1].value = call.value
              /\ result[1].attribute = call.attributeName

\* a valid and an invalid result on each path: here a valid integer value
C18_ValidWithoutRecommendation ==
    /\ call.fn = "validateAttribute" /\ result # <<>>
    /\ call.attributeName = <<"a","r","i","a","-","l","e","v","e","l">> /\ call.value = <<"5">>
    /\ result[1].isValid
    /\ result[1].recommendation = Undefined

(***************************************************************************)
(* Properties of the markup scanner's ARIA and role rules                  *)
(***************************************************************************)
\* C19: the invalid-aria-attribute issues of a line are, in order, one for
\* each aria-* attribute on it that validateAttribute finds invalid, each
\* serious and of level A and naming the attribute; an attribute that
\* validates yields none, and so does an attribute that is not aria-*
C19_OneIssuePerInvalidOccurrence ==
    (call.fn = "auditHTML" /\ "attributes" \in DOMAIN call /\ result # <<>>) =>
        LET isAria(a) == startsWith(a.name, <<"a","r","i","a","-">>)
            fails(a) == isAria(a) /\ ~validateAttribute(a.name, a.value).isValid
            failing == SelectSeq(call.attributes, fails)
            isAriaIssue(issue) == issue.type = "invalid-aria-attribute"
            found == SelectSeq(result[1], isAriaIssue)
        IN /\ Len(found) = Len(failing)
           /\ \A k \in 1..Len(found) :
                 /\ found[k].severity = "serious"
                 /\ found[k].wcagLevel = "A"
                 /\ found[k].message = <<"Invalid ARIA attribute: ", failing[k].name>>
                 /\ found[k].line = 1

\* a line with a valid aria attribute between two invalid ones was scanned,
\* and the two invalid ones were reported
C19_TwoOfThreeReported ==
    /\ call.fn = "auditHTML" /\ "attributes" \in DOMAIN call /\ result # <<>>
    /\ Len(call.attributes) = 3
    /\ call.attributes[1].text = <<"a","r","i","a","-","h","i","d","d","e","n","=","\"","m","a","y","b","e","\"">>
    /\ call.attributes[2].text = <<"a","r","i","a","-","l","i","v","e"," ","="," ","'","p","o","l","i","t","e","'">>
    /\ call.attributes[3].text = <<"a","r","i","a","-","f","o","o","=","\"","x","\"">>
    /\ LET isAriaIssue(issue) == issue.type = "invalid-aria-attribute"
       IN Len(SelectSeq(result[1], isAriaIssue)) = 2

\* C20: a line yields a missing-role issue (serious, A) exactly when one of
\* the role attributes on it, the first or a later one, has a value that
\* validateRole finds invalid
C20_EveryRoleValidated ==
    (call.fn = "auditHTML" /\ "attributes" \in DOMAIN call /\ result # <<>>) =>
        LET roles == {call.attributes[k].value :
                        k \in {j \in 1..Len(call.attributes) :
                                 call.attributes[j].name = <<"r","o","l","e">>}}
        IN (\E role \in roles : ~validateRole(role).isValid)
           <=> \E k \in 1..Len(result[1]) :
                  /\ result[1][k].type = "missing-role"
                  /\ result[1][k].severity = "serious"
                  /\ result[1][k].wcagLevel = "A"

(***************************************************************************)
(* Properties of the markup scanner's lang and empty-link rules            *)
(***************************************************************************)
\* C21: a markup audit gives a missing-lang-attribute issue exactly when the
\* text has an <html opening tag (from <html to the next >) with no lang=
\* inside it; it gives at most one, at line 0 and column 0
C21_MissingLangIffTagWithoutLang ==
    (call.fn = "auditHTML" /\ "lines" \in DOMAIN call /\ result # <<>>) =>
        LET text == getText(call.lines)
            closes(i) == {j \in i..Len(text) : text[j] = ">"}
            tags == {i \in 1..Len(text) :
                       startsWithAt(text, <<"<","h","t","m","l">>, i) /\ closes(i) # {}}
            close(i) == CHOOSE j \in closes(i) : \A k \in closes(i) : j <= k
            equalsAfter(j) ==
                \E e \in j..Len(text) :
                   /\ text[e] = "="
                   /\ \A k \in j..(e - 1) : text[k] \in WhiteSpace
            hasLang(i) ==
                \E j \in i..close(i) :
                   /\ startsWithAt(text, <<"l","a","n","g">>, j)
                   /\ j + 4 <= close(i)
                   /\ equalsAfter(j + 4)
            found == {k \in 1..Len(result[1]) :
                        result[1][k].type = "missing-lang-attribute"}
        IN /\ (found # {}) <=> (\E i \in tags : ~hasLang(i))
           /\ Cardinality(found) <= 1
           /\ \A k \in found : result[1][k].line = 0 /\ result[1][k].column = 0

\* C22: a line with an anchor element whose opening tag, with or without
\* attributes, and closing tag are separated only by whitespace yields an
\* empty-link issue (serious, A) on that line
C22_EmptyAnchorReported ==
    (call.fn = "auditHTML" /\ "lines" \in DOMAIN call /\ result # <<>>) =>
        \A n \in 1..Len(call.lines) :
            LET line == call.lines[n]
                emptyFrom(i) ==
                    \E j \in (i + 2)..Len(line) :
                       /\ line[j] = ">"
                       /\ \A k \in (i + 2)..(j - 1) : line[k] # ">"
                       /\ j > i + 2 => line[i + 2] \in WhiteSpace
                       /\ \E c \in (j + 1)..Len(line) :
                             /\ startsWithAt(line, <<"<","/","a",">">>, c)
                             /\ \A k \in (j + 1)..(c - 1) : line[k] \in WhiteSpace
                emptyAnchor ==
                    \E i \in 1..Len(line) :
                       startsWithAt(line, <<"<","a">>, i) /\ emptyFrom(i)
            IN emptyAnchor =>
                  \E k \in 1..Len(result[1]) :
                     /\ result[1][k].type = "empty-link"
                     /\ result[1][k].line = n - 1
                     /\ result[1][k].severity = "serious"
                     /\ result[1][k].wcagLevel = "A"

C24_LocationInDocument ==
    \A found \in {issues, pending} :
        \A k \in 1..Len(found) :
            /\ found[k].line \in 0..(Len(Lines) - 1)
            /\ found[k].column \in 0..Len(Lines[found[k].line + 1])

\* an audit is complete with an issue that is neither on the first line nor
\* in the first column
C24_IssueInsideDocument ==
    /\ pcTask = "done"
    /\ \E k \in 1..Len(issues) : issues[k].line > 0 /\ issues[k].column > 0

\* C25: a runAudit call made with no active editor returns an empty list,
\* runs no scanner and leaves the diagnostic collection as it was, with the
\* diagnostics of earlier audits in it; the handler receives an empty list
C25_NoEditorNoEffect ==
    /\ [][(pcCommand = "idle" /\ pcCommand' = "runAudit"
            /\ activeTextEditor = NoEditor) =>
              /\ returned' = "empty"
              /\ pcAudit' = "returned"
              /\ "task" \notin {microtasks'[k] : k \in 1..Len(microtasks')}
              /\ UNCHANGED <<diagnostics, issues, pending, pcTask, colorPairs>>]_vars
    /\ []((pcCommand = "results" /\ returned = "empty") =>
              /\ Results = <<>> /\ received = <<>> /\ currentIssuesCount = 0)

\* runAudit has returned with no active editor while the collection holds
\* the diagnostics of an earlier audit
C25_ReturnedWithEarlierDiagnostics ==
    /\ pcCommand = "results" /\ returned = "empty"
    /\ activeTextEditor = NoEditor
    /\ \E u \in DOMAIN diagnostics : diagnostics[u] # <<>>

\* C26: the stylesheet scanner records and reports each rule block at most
\* once: no two pairs, and no two low-color-contrast issues, are of the block
\* opened on the same line, and the issues are no more than the lines with a {
C26_BlockReportedOnce ==
    LET lowContrast(found) ==
            {k \in 1..Len(found) : found[k].type = "low-color-contrast"}
        opened == {n \in 1..Len(Lines) : indexOf(Lines[n], <<"{">>) >= 0}
    IN /\ \A i, j \in 1..Len(colorPairs) :
             colorPairs[i].line = colorPairs[j].line => i = j
       /\ \A found \in {issues, pending} :
             /\ \A i, j \in lowContrast(found) :
                   found[i].line = found[j].line => i = j
             /\ document.languageId \in CssLanguages =>
                   Cardinality(lowContrast(found)) <= Cardinality(opened)

(***************************************************************************)
(* Properties of the statistics and of the event list                      *)
(***************************************************************************)
\* C27: after any audits and resets the stored counters satisfy
\* 0 <= totalIssuesFixed <= totalIssuesFound
C27_FixedAtMostFound ==
    /\ 0 <= globalState.totalIssuesFixed
    /\ globalState.totalIssuesFixed <= globalState.totalIssuesFound

\* C28: an audit whose count is that of the audit just before it changes
\* neither totalIssuesFixed nor totalIssuesFound
C28_SameCountNoChange ==
    [][(/\ audits # <<>>
        /\ audits' = Append(audits, audits[Len(audits)]))
         => /\ globalState'.totalIssuesFixed = globalState.totalIssuesFixed
            /\ globalState'.totalIssuesFound = globalState.totalIssuesFound]_vars

\* C29: totalIssuesFound is the greatest count of the audits since the last
\* reset (0 when there is none), and an audit never lowers it
C29_FoundIsMaximum ==
    /\ [](\A k \in 1..Len(audits) : audits[k] <= globalState.totalIssuesFound)
    /\ [](globalState.totalIssuesFound
            \in {0} \cup {audits[k] : k \in 1..Len(audits)})
    /\ [][Len(audits') > Len(audits) =>
             globalState'.totalIssuesFound >= globalState.totalIssuesFound]_vars

\* audits of 1, 3 and 2 issues have been made, and totalIssuesFound is 3
C29_RiseThenFall ==
    /\ audits = <<1, 3, 2>>
    /\ globalState.totalIssuesFound = 3

\* C30: the event list holds at most 1000 events, the last of those tracked,
\* in call order, and the store holds the same list; a trackEvent call made
\* while analytics is disabled leaves the list and the store as they are
C30_LastEventsKept ==
    /\ Len(events) <= 1000
    /\ Len(events) = Min(1000, Len(tracked))
    /\ events = SubSeq(tracked, Len(tracked) - Len(events) + 1, Len(tracked))
    /\ globalState.analyticsEvents = events
    /\ ~isAnalyticsEnabled =>
          \A eventName \in {"audit_run", "issue_fixed", "panel_opened"} :
             LET m == [events |-> events, globalState |-> globalState,
                       now |-> now, tracked |-> tracked]
             IN trackEvent(m, eventName) = m

\* more than 1000 events have been tracked, the latest by the audit command,
\* and the oldest are gone
C30_OldestDropped ==
    /\ Len(tracked) > 1000
    /\ Len(events) = 1000
    /\ events[1] = tracked[Len(tracked) - 999]
    /\ events[1000].eventName = "issue_fixed"

====
